---- MODULE Spec2Model ----
(***************************************************************************)
(* Verification model of porter-model's cast exporter (to_cast), of the    *)
(* cast container it writes into, of porter-texture's TGA run-length codec *)
(* and of the views and the splash subscription of porter-ui's window.     *)
(*                                                                         *)
(* Spec          one run of to_cast on a model drawn from Models           *)
(* SpecCast      a tree built with create / create_property / push, then   *)
(*               written to a byte stream and read back                    *)
(* SpecWidth     the index width choices of to_cast on counts of up to 64  *)
(*               bits                                                      *)
(* SpecTga       porter-texture's run-length encoder applied row by row to *)
(*               an image and its decoder applied to the bytes written     *)
(*               (SpecTgaFair: the same with a fair scheduler)             *)
(* SpecMain      the search and controls views of porter-ui's main window  *)
(*               built from a state of the window                          *)
(* SpecSplash    the splash channel of the main window's subscription      *)
(*               (SpecSplashFair: the same with a fair scheduler)          *)
(***************************************************************************)
EXTENDS Integers, Sequences, FiniteSets, TLC

VARIABLES
    model,          \* the &Model argument of to_cast
    pc,             \* position inside to_cast
    nodes,          \* the CastNode tree under construction, in creation order
    hash_next,      \* the container's identity counter
    skeleton_node,  \* index of the Skeleton node in nodes (0: none)
    cur_node,       \* index of material_node / mesh_node of the running loop body
    bone_map,       \* HashMap<usize, CastPropertyValue>, bone index + 1 -> hash
    material_map,   \* HashMap<usize, CastPropertyValue>
    mesh_map,       \* HashMap<usize, CastPropertyValue>
    used_slots,     \* HashSet<String> of the running material
    i,              \* index of the running outer loop (0-based)
    j,              \* index of the running inner loop (0-based)
    file,           \* what is at path.with_extension("cast")
    handle_open,    \* whether to_cast holds the output file handle
    result,         \* what to_cast returned
    stream,         \* the bytes CastFile::write produced
    decoded,        \* what reading stream back gave
    image,          \* the frame to_tga writes: bytes per pixel, size, buffer
    tga_pc,         \* position inside to_tga / from_tga
    row,            \* to_tga: the row y being encoded (0-based)
    cursor,         \* write_rle_encode: byte offset in the row
    output,         \* the bytes written to the output stream
    input_pos,      \* read_rle_decode: bytes consumed from the input stream
    frame,          \* read_rle_decode: the bytes written to the frame buffer
    tga_result,     \* what the codec returned
    main,           \* the fields of PorterMain the views read
    search_view,    \* the messages the element built by search() can produce
    controls_view,  \* the messages the element built by controls() can produce
    splash,         \* the splash channel's counter, in hundredths
    timeout,        \* the splash channel's timeout, in hundredths
    sent,           \* the last message the splash channel sent
    closes          \* number of CloseSplash messages sent

vars == <<model, pc, nodes, hash_next, skeleton_node, cur_node, bone_map,
          material_map, mesh_map, used_slots, i, j, file, handle_open, result,
          stream, decoded, image, tga_pc, row, cursor, output, input_pos, frame,
          tga_result, main, search_view, controls_view, splash, timeout, sent, closes>>

\* The variables to_cast never touches, and those only to_cast touches.
container_vars == <<stream, decoded>>
to_cast_vars == <<model, skeleton_node, cur_node, bone_map, material_map, mesh_map,
                  used_slots, i, j, file, handle_open, result>>

\* The variables of porter-model and the cast container, of porter-texture's
\* TGA codec, of the main window's views and of its splash channel.
cast_vars == <<model, pc, nodes, hash_next, skeleton_node, cur_node, bone_map,
               material_map, mesh_map, used_slots, i, j, file, handle_open, result,
               stream, decoded>>
tga_vars == <<image, tga_pc, row, cursor, output, input_pos, frame, tga_result>>
main_vars == <<main, search_view, controls_view>>
splash_vars == <<splash, timeout, sent, closes>>

\* What the variables of a crate hold in a specification of another crate.
TgaIdle ==
    /\ image = [bytes_per_pixel |-> 1, frame_width |-> 0, frame_height |-> 0,
                buffer |-> <<>>]
    /\ tga_pc = "idle"
    /\ row = 0
    /\ cursor = 0
    /\ output = <<>>
    /\ input_pos = 0
    /\ frame = <<>>
    /\ tga_result = "running"

MainIdle ==
    /\ main = [loading |-> FALSE, exporting |-> FALSE]
    /\ search_view = <<>>
    /\ controls_view = <<>>

SplashIdle ==
    /\ splash = 0
    /\ timeout = 0
    /\ sent = <<>>
    /\ closes = 0

(***************************************************************************)
(* Bounds of the model and constants of the program.                       *)
(***************************************************************************)
MaxBones == 2
MaxRigs == 2
MaxMaterials == 2
MaxTextures == 3
MaxMeshes == 2
MaxShapes == 2
MaxDeltas == 2

U8Max == 255
U16Max == 65535
I32Half == 1073741824

(***************************************************************************)
(* Option<T> is a sequence of length 0 (None) or 1 (Some).                 *)
(***************************************************************************)
None == <<>>
Some(x) == <<x>>
IsSome(o) == Len(o) = 1
Get(o) == o[1]

Max(S) == CHOOSE x \in S : \A y \in S : y <= x

\* The sequences over S of length n in which at most one element differs from d.
SeqsVarying(S, d, n) ==
    {[k \in 1..n |-> d]} \cup
    {[k \in 1..n |-> IF k = p THEN x ELSE d] : p \in 1..n, x \in S}

\* The sequences of length 0..n over S with at most one element different from d.
SeqsUpTo(S, d, n) == UNION {SeqsVarying(S, d, m) : m \in 0..n}

(***************************************************************************)
(* format!("{n}") of an unsigned integer.                                  *)
(***************************************************************************)
Digit(d) == CASE d = 0 -> "0" [] d = 1 -> "1" [] d = 2 -> "2" [] d = 3 -> "3"
              [] d = 4 -> "4" [] d = 5 -> "5" [] d = 6 -> "6" [] d = 7 -> "7"
              [] d = 8 -> "8" [] d = 9 -> "9"

RECURSIVE Decimal(_)
Decimal(n) == IF n < 10 THEN Digit(n) ELSE Decimal(n \div 10) \o Digit(n % 10)

(***************************************************************************)
(* The cast node tree.  A node is [kind, parent, hash, props]; parent is   *)
(* the index of the owning node in nodes (0 for the root).  A property is  *)
(* [name, tag, vals].                                                      *)
(***************************************************************************)
NextHashOfSibling(ns, parent, counter) ==
    Cardinality({k \in 1..Len(ns) : ns[k].parent = parent}) + 1

\* The identity a node receives on creation.
NextHash(ns, parent, counter) == counter

\* CastNode::create: appends a child of kind under parent.
Create(ns, parent, kind, counter) ==
    Append(ns, [kind |-> kind, parent |-> parent,
                hash |-> NextHash(ns, parent, counter), props |-> <<>>])

CreatePropertyOverLast(ns, n, tag, name, vals) ==
    [ns EXCEPT ![n].props =
        IF @ = <<>> THEN <<[name |-> name, tag |-> tag, vals |-> vals]>>
        ELSE [@ EXCEPT ![Len(@)] = [name |-> name, tag |-> tag, vals |-> vals]]]

\* CastNode::create_property followed by the pushes of vals.
CreateProperty(ns, n, tag, name, vals) ==
    [ns EXCEPT ![n].props = Append(@, [name |-> name, tag |-> tag, vals |-> vals])]

\* CastPropertyValue::from(&CastNode): the node's identity as an Integer64 value.
HashRefOf(ns, n) == ns[n].hash

PropNames(node) == [k \in 1..Len(node.props) |-> node.props[k].name]
HasProp(node, name) == \E k \in 1..Len(node.props) : node.props[k].name = name
PropsNamed(node, name) == {k \in 1..Len(node.props) : node.props[k].name = name}
Prop(node, name) == node.props[CHOOSE k \in PropsNamed(node, name) : TRUE]
NodesOfKind(ns, kind) == {n \in 1..Len(ns) : ns[n].kind = kind}
ChildrenOf(ns, p) == {n \in 1..Len(ns) : ns[n].parent = p}

(***************************************************************************)
(* The input: bones, IK handles and constraints.                           *)
(***************************************************************************)
Vec(x) == <<x, 0, 1>>

Bone(name, parent, lp, lr, wp, wr, s) ==
    [name |-> name, parent |-> parent,
     local_position |-> IF lp THEN Some(Vec(1)) ELSE None,
     local_rotation |-> IF lr THEN Some(<<0, 0, 0, 1>>) ELSE None,
     world_position |-> IF wp THEN Some(Vec(2)) ELSE None,
     world_rotation |-> IF wr THEN Some(<<0, 1, 0, 0>>) ELSE None,
     local_scale |-> IF s THEN Some(Vec(3)) ELSE None]

DefaultBone == Bone(Some("bone"), -1, TRUE, TRUE, TRUE, TRUE, FALSE)

BoneVariants ==
    {Bone(Some("bone"), 0, lp, lr, wp, wr, s) : lp, lr, wp, wr, s \in BOOLEAN}
    \cup {Bone(None, -1, TRUE, TRUE, FALSE, FALSE, TRUE)}

\* Bone indices an IK handle or constraint may name: MaxBones is never a bone.
BoneRefs == 0..MaxBones
OptBoneRefs == {None} \cup {Some(b) : b \in BoneRefs}

IKHandle(name, sb, eb, tb, pv, pb, tr) ==
    [name |-> name, start_bone |-> sb, end_bone |-> eb, target_bone |-> tb,
     pole_vector_bone |-> pv, pole_bone |-> pb, use_target_rotation |-> tr]

DefaultIKHandle == IKHandle(Some("ik"), 0, 0, None, None, None, FALSE)

IKHandleVariants ==
    {IKHandle(None, sb, eb, None, None, None, TRUE) : sb, eb \in BoneRefs}
    \cup {IKHandle(Some("ik"), 0, 0, tb, None, None, FALSE) : tb \in OptBoneRefs}
    \cup {IKHandle(Some("ik"), 0, 0, None, pv, None, FALSE) : pv \in OptBoneRefs}
    \cup {IKHandle(Some("ik"), 0, 0, None, None, pb, FALSE) : pb \in OptBoneRefs}
    \cup {IKHandle(Some("ik"), 0, 0, Some(0), Some(0), pb, TRUE) : pb \in OptBoneRefs}

Constraint(name, ct, cb, tb, mo) ==
    [name |-> name, constraint_type |-> ct, constraint_bone |-> cb,
     target_bone |-> tb, maintain_offset |-> mo,
     skip_x |-> FALSE, skip_y |-> TRUE, skip_z |-> FALSE]

DefaultConstraint == Constraint(Some("con"), "Point", 0, 0, FALSE)

ConstraintVariants ==
    {Constraint(None, "Orient", cb, tb, TRUE) : cb, tb \in BoneRefs}
    \cup {Constraint(Some("con"), ct, 0, 0, FALSE) : ct \in {"Point", "Orient", "Scale"}}

Skeleton(bones, ik_handles, constraints) ==
    [bones |-> bones, ik_handles |-> ik_handles, constraints |-> constraints]

Skeletons ==
    {Skeleton(b, <<>>, <<>>) : b \in SeqsUpTo(BoneVariants, DefaultBone, MaxBones)}
    \cup {Skeleton([k \in 1..n |-> DefaultBone], h, <<>>) :
            n \in 0..MaxBones,
            h \in SeqsUpTo(IKHandleVariants, DefaultIKHandle, MaxRigs)}
    \cup {Skeleton([k \in 1..n |-> DefaultBone], <<>>, c) :
            n \in 0..MaxBones,
            c \in SeqsUpTo(ConstraintVariants, DefaultConstraint, MaxRigs)}
    \cup {Skeleton([k \in 1..n |-> DefaultBone],
                   [k \in 1..h |-> DefaultIKHandle], [k \in 1..c |-> DefaultConstraint]) :
            n \in 0..MaxBones, h \in 1..MaxRigs, c \in 1..MaxRigs}

(***************************************************************************)
(* The input: materials.                                                   *)
(***************************************************************************)
SemanticUsages == {"Albedo", "Diffuse", "Specular", "Normal", "Emissive", "Gloss",
                   "Roughness", "AmbientOcclusion", "Cavity", "Metalness", "Anisotropy"}
TextureUsages == SemanticUsages \cup {"Unknown", "Count"}
RepeatedUsages == {"Albedo", "Normal", "Unknown", "Count"}

Texture(usage) == [file_name |-> "tex.png", texture_usage |-> usage]

TextureLists ==
    UNION {[1..n -> {Texture(u) : u \in RepeatedUsages}] : n \in 0..MaxTextures}
    \cup SeqsUpTo({Texture(u) : u \in TextureUsages}, Texture("Albedo"), MaxTextures)

Material(name, textures) == [name |-> name, textures |-> textures]
DefaultMaterial == Material("mat", <<Texture("Albedo")>>)
MaterialVariants == {Material("mat", t) : t \in TextureLists}

(***************************************************************************)
(* The input: meshes and blend shapes.  A vertex buffer is its length and  *)
(* layer counts; the attributes of vertex v are fixed functions of v.      *)
(***************************************************************************)
VertexPosition(mesh, v) == <<v % 3, mesh.vertices.len % 2, 1>>
VertexNormal(mesh, v) == <<0, v % 2, 1>>
VertexColor(mesh, v, cl) == (v + cl) % 4
VertexUV(mesh, v, uv) == <<v % 2, uv>>
VertexWeight(mesh, v, w) == [bone |-> mesh.weight_bone, value |-> 10 * (v % 3) + w + 1]

Face(a, b, c) == [i1 |-> a, i2 |-> b, i3 |-> c]

VertexBuffer(len, uv, cl, mi) ==
    [len |-> len, uv_layers |-> uv, colors |-> cl, maximum_influence |-> mi]

Mesh(name, vertices, faces, material, sm, wbone, shapes) ==
    [name |-> name, vertices |-> vertices, faces |-> faces, material |-> material,
     skinning_method |-> sm, weight_bone |-> wbone, blend_shapes |-> shapes]

\* A blend shape: vertex_deltas is the map, keys the order its iteration yields.
BlendShape(name, ts, deltas, keys) ==
    [name |-> name, target_scale |-> ts, vertex_deltas |-> deltas, keys |-> keys]

Delta(k) == <<1, k % 2, 2>>
VecAdd(a, b) == [k \in 1..Len(a) |-> a[k] + b[k]]

\* The orders in which a map with key set K can be iterated.
Orders(K) == {o \in [1..Cardinality(K) -> K] : \A a, b \in 1..Cardinality(K) : a # b => o[a] # o[b]}

\* The blend shapes of a mesh of len vertices whose deltas touch at most
\* MaxDeltas of the vertices in candidates, in every iteration order.
BlendShapesOf(len, candidates) ==
    {BlendShape("shape", 1, [k \in K |-> Delta(k)], o) :
        <<K, o>> \in UNION {{<<K, o>> : o \in Orders(K)} :
            K \in {K \in SUBSET {k \in candidates : k < len} :
                     Cardinality(K) <= MaxDeltas}}}

DefaultBlendShape == BlendShape("shape", 2, <<>>, <<>>)

SmallFaces(len) == IF len >= 3 THEN <<Face(0, 1, 2), Face(2, 1, len - 1)>> ELSE <<>>

DefaultMesh == Mesh(Some("mesh"), VertexBuffer(3, 1, 1, 1), SmallFaces(3), Some(0),
                    "Linear", 0, <<>>)

BoundaryMesh(len) ==
    Mesh(None, VertexBuffer(len, 0, 0, 1), <<Face(0, 1, len - 1)>>, None, "Linear", 0, <<>>)

MeshVariants ==
    \* small meshes: layer counts, influences, names, material references
    {Mesh(Some("mesh"), VertexBuffer(len, uv, cl, mi), SmallFaces(len), None,
          "DualQuaternion", 0, <<>>) :
        len \in {0, 4}, uv \in 0..2, cl \in 0..2, mi \in 0..2}
    \cup {Mesh(None, VertexBuffer(3, 0, 0, 1), SmallFaces(3), mat, "Linear", wb, <<>>) :
            mat \in {None} \cup {Some(k) : k \in 0..MaxMaterials}, wb \in 0..MaxBones}
    \* vertex counts around the 8-bit boundary
    \cup {BoundaryMesh(len) : len \in {U8Max, U8Max + 1, U8Max + 2}}
    \* blend shapes
    \cup {Mesh(None, VertexBuffer(4, 0, 0, 0), SmallFaces(4), None, "Linear", 0, s) :
            s \in SeqsUpTo(BlendShapesOf(4, {0, 3}), DefaultBlendShape, MaxShapes)}

\* Meshes of a thousand vertices and meshes around the 16-bit boundary.
LargeMeshes ==
    {BoundaryMesh(len) : len \in {U16Max, U16Max + 1, U16Max + 2}}
    \cup {Mesh(None, VertexBuffer(1000, 0, 0, 0), <<>>, None, "Linear", 0, <<s>>) :
            s \in BlendShapesOf(1000, {3, U8Max, U8Max + 1, 999})}
    \cup {Mesh(None, VertexBuffer(U16Max + 2, 0, 0, 0), <<>>, None, "Linear", 0, <<s>>) :
            s \in BlendShapesOf(U16Max + 2, {3, U16Max, U16Max + 1})}

\* Meshes of one vertex with layer counts around what a byte holds.
LayeredMeshes ==
    {Mesh(None, VertexBuffer(1, uv, 0, 0), <<>>, None, "Linear", 0, <<>>) :
        uv \in {U8Max, U8Max + 1}}
    \cup {Mesh(None, VertexBuffer(1, 0, cl, 0), <<>>, None, "Linear", 0, <<>>) :
            cl \in {U8Max, U8Max + 1}}

(***************************************************************************)
(* The models to_cast is run on.                                           *)
(***************************************************************************)
Model(up_axis, skeleton, materials, meshes) ==
    [up_axis |-> up_axis, skeleton |-> skeleton, materials |-> materials, meshes |-> meshes]

BonesOnly(n) == Skeleton([k \in 1..n |-> DefaultBone], <<>>, <<>>)

Models ==
    {Model(a, BonesOnly(0), <<>>, <<>>) : a \in {"X", "Y", "Z"}}
    \cup {Model("Y", s, <<>>, <<>>) : s \in Skeletons}
    \cup {Model("Z", BonesOnly(0), m, <<>>) :
            m \in SeqsUpTo(MaterialVariants, DefaultMaterial, MaxMaterials)}
    \cup {Model("Y", BonesOnly(n), [k \in 1..n |-> DefaultMaterial], ms) :
            n \in {0, 1},
            ms \in SeqsUpTo(MeshVariants, DefaultMesh, MaxMeshes)}
    \cup {Model("Y", BonesOnly(0), <<>>, <<mesh>>) : mesh \in LargeMeshes \cup LayeredMeshes}

(***************************************************************************)
(* Helpers of to_cast.                                                     *)
(***************************************************************************)
P(tag, name, vals) == [name |-> name, tag |-> tag, vals |-> vals]

\* `x as u32` of an i32, as the two 16-bit halves <<high, low>> of the result.
I32AsU32(x) ==
    IF x >= 0 THEN <<x \div (U16Max + 1), x % (U16Max + 1)>>
    ELSE LET y == (x + I32Half) + I32Half
         IN <<(y \div (U16Max + 1)) + ((U16Max + 1) \div 2), y % (U16Max + 1)>>

\* A run of node.create_property(tag, name).push(..) calls, in order.
CreateProperties(ns, n, ps) ==
    [ns EXCEPT ![n].props =
        @ \o [k \in 1..Len(ps) |-> [name |-> ps[k].name, tag |-> ps[k].tag, vals |-> ps[k].vals]]]

EmptyMap == [k \in {} |-> 0]

InsertAtNext(map, key, value) ==
    [k \in DOMAIN map \cup {key + 1} |-> IF k = key + 1 THEN value ELSE map[k]]

\* HashMap::insert
Insert(map, key, value) == [k \in DOMAIN map \cup {key} |-> IF k = key THEN value ELSE map[k]]

BoolAsU8(b) == IF b THEN 1 ELSE 0

NarrowToByte(tag, x) == x % (U8Max + 1)

\* The `as u8` / `as u16` / `as u32` conversion that matches the property's tag.
Narrow(tag, x) ==
    CASE tag = "Byte" -> x % (U8Max + 1)
      [] tag = "Short" -> x % (U16Max + 1)
      [] OTHER -> x

\* if n <= 0xFF { Byte } else if n <= 0xFFFF { Short } else { Integer32 }
WidthTag(n) ==
    IF n <= U8Max THEN "Byte" ELSE IF n <= U16Max THEN "Short" ELSE "Integer32"

HasSkeletonOrRigs(m) ==
    m.skeleton.bones # <<>> \/ m.skeleton.ik_handles # <<>> \/ m.skeleton.constraints # <<>>

HasSkeletonAlways(m) == TRUE

\* if !model.skeleton.bones.is_empty()
HasSkeleton(m) == m.skeleton.bones # <<>>

\* Where the control goes when the loop of a phase is at index idx.
GotoMeshes(m, idx) ==
    IF idx < Len(m.meshes) THEN <<"meshes", idx>> ELSE <<"create_file", 0>>
GotoMaterials(m, idx) ==
    IF idx < Len(m.materials) THEN <<"materials", idx>> ELSE GotoMeshes(m, 0)
GotoConstraints(m, idx) ==
    IF idx < Len(m.skeleton.constraints) THEN <<"constraints", idx>> ELSE GotoMaterials(m, 0)
GotoIKHandles(m, idx) ==
    IF idx < Len(m.skeleton.ik_handles) THEN <<"ik_handles", idx>> ELSE GotoConstraints(m, 0)
GotoBones(m, idx) ==
    IF idx < Len(m.skeleton.bones) THEN <<"bones", idx>> ELSE GotoIKHandles(m, 0)

ModelNode == 3

(***************************************************************************)
(* to_cast: root, metadata and model node.                                 *)
(***************************************************************************)
UpAxisName(a) == CASE a = "X" -> "x" [] a = "Y" -> "y" [] a = "Z" -> "z"

Init ==
    /\ model \in Models
    /\ pc = "start"
    /\ nodes = <<>>
    /\ hash_next = 1
    /\ skeleton_node = 0
    /\ cur_node = 0
    /\ bone_map = EmptyMap
    /\ material_map = EmptyMap
    /\ mesh_map = EmptyMap
    /\ used_slots = {}
    /\ i = 0
    /\ j = 0
    /\ file = "absent"
    /\ handle_open = FALSE
    /\ result = "running"
    /\ stream = <<>>
    /\ decoded = <<>>
    /\ TgaIdle /\ MainIdle /\ SplashIdle

Begin ==
    /\ pc = "start"
    /\ LET root == Create(<<>>, 0, "Root", hash_next)
           meta == CreateProperties(Create(root, 1, "Metadata", hash_next + 1), 2,
                     <<P("String", "a", <<"DTZxPorter">>),
                       P("String", "s", <<"Exported by PorterLib">>),
                       P("String", "up", <<UpAxisName(model.up_axis)>>)>>)
           next == IF HasSkeleton(model) THEN <<"skeleton", 0>> ELSE GotoMaterials(model, 0)
       IN /\ nodes' = Create(meta, 1, "Model", hash_next + 2)
          /\ hash_next' = hash_next + 3
          /\ pc' = next[1]
          /\ i' = next[2]
    /\ UNCHANGED <<model, skeleton_node, cur_node, bone_map, material_map, mesh_map,
                   used_slots, j, file, handle_open, result>>
    /\ UNCHANGED <<container_vars, tga_vars, main_vars, splash_vars>>

(***************************************************************************)
(* to_cast: the skeleton.                                                  *)
(***************************************************************************)
EmitSkeleton ==
    /\ pc = "skeleton"
    /\ nodes' = Create(nodes, ModelNode, "Skeleton", hash_next)
    /\ hash_next' = hash_next + 1
    /\ skeleton_node' = Len(nodes) + 1
    /\ bone_map' = EmptyMap
    /\ pc' = GotoBones(model, 0)[1]
    /\ i' = GotoBones(model, 0)[2]
    /\ UNCHANGED <<model, cur_node, material_map, mesh_map, used_slots, j, file,
                   handle_open, result>>
    /\ UNCHANGED <<container_vars, tga_vars, main_vars, splash_vars>>

BonePropsUnpaired(bone, bone_index) ==
    <<P("String", "n", <<IF IsSome(bone.name) THEN Get(bone.name)
                          ELSE "porter_bone_" \o Decimal(bone_index)>>),
      P("Integer32", "p", <<I32AsU32(bone.parent)>>)>>
    \o (IF IsSome(bone.local_position)
        THEN <<P("Vector3", "lp", <<Get(bone.local_position)>>)>> ELSE <<>>)
    \o (IF IsSome(bone.local_rotation)
        THEN <<P("Vector4", "lr", <<Get(bone.local_rotation)>>)>> ELSE <<>>)
    \o (IF IsSome(bone.world_position) /\ IsSome(bone.world_rotation)
        THEN <<P("Vector3", "wp", <<Get(bone.world_position)>>),
               P("Vector4", "wr", <<Get(bone.world_rotation)>>)>>
        ELSE <<>>)
    \o (IF IsSome(bone.local_scale)
        THEN <<P("Vector3", "s", <<Get(bone.local_scale)>>)>> ELSE <<>>)

\* The properties of one Bone node.
BoneProps(bone, bone_index) ==
    <<P("String", "n", <<IF IsSome(bone.name) THEN Get(bone.name)
                          ELSE "porter_bone_" \o Decimal(bone_index)>>),
      P("Integer32", "p", <<I32AsU32(bone.parent)>>)>>
    \o (IF IsSome(bone.local_position) /\ IsSome(bone.local_rotation)
        THEN <<P("Vector3", "lp", <<Get(bone.local_position)>>),
               P("Vector4", "lr", <<Get(bone.local_rotation)>>)>>
        ELSE <<>>)
    \o (IF IsSome(bone.world_position) /\ IsSome(bone.world_rotation)
        THEN <<P("Vector3", "wp", <<Get(bone.world_position)>>),
               P("Vector4", "wr", <<Get(bone.world_rotation)>>)>>
        ELSE <<>>)
    \o (IF IsSome(bone.local_scale)
        THEN <<P("Vector3", "s", <<Get(bone.local_scale)>>)>> ELSE <<>>)

EmitBone ==
    /\ pc = "bones"
    /\ LET bone == model.skeleton.bones[i + 1]
           bone_node == Len(nodes) + 1
           built == CreateProperties(Create(nodes, skeleton_node, "Bone", hash_next),
                                     bone_node, BoneProps(bone, i))
       IN /\ nodes' = built
          /\ bone_map' = Insert(bone_map, i, HashRefOf(built, bone_node))
    /\ hash_next' = hash_next + 1
    /\ pc' = GotoBones(model, i + 1)[1]
    /\ i' = GotoBones(model, i + 1)[2]
    /\ UNCHANGED <<model, skeleton_node, cur_node, material_map, mesh_map, used_slots,
                   j, file, handle_open, result>>
    /\ UNCHANGED <<container_vars, tga_vars, main_vars, splash_vars>>

\* node.create_property(Integer64, name).push(bone_map[&bone].clone()) for each
\* of refs in turn; indexing the map with a key it does not hold panics, after
\* the property was created and before anything is pushed.
RECURSIVE PushBoneRefs(_, _, _, _)
PushBoneRefs(ns, n, refs, map) ==
    IF refs = <<>> THEN [ns |-> ns, ok |-> TRUE]
    ELSE LET r == Head(refs) IN
         IF r.bone \in DOMAIN map
         THEN PushBoneRefs(CreateProperty(ns, n, "Integer64", r.name, <<map[r.bone]>>),
                           n, Tail(refs), map)
         ELSE [ns |-> CreateProperty(ns, n, "Integer64", r.name, <<>>), ok |-> FALSE]

Ref(name, bone) == [name |-> name, bone |-> bone]
OptRef(name, bone) == IF IsSome(bone) THEN <<Ref(name, Get(bone))>> ELSE <<>>
OptName(name) == IF IsSome(name) THEN <<P("String", "n", <<Get(name)>>)>> ELSE <<>>

IKHandleRefsPoleSwapped(h) ==
    <<Ref("sb", h.start_bone), Ref("eb", h.end_bone)>>
    \o OptRef("tb", h.target_bone)
    \o OptRef("pv", h.pole_vector_bone)
    \o OptRef("pv", h.pole_bone)

\* The bone references of an IK handle, in the order they are pushed.
IKHandleRefs(h) ==
    <<Ref("sb", h.start_bone), Ref("eb", h.end_bone)>>
    \o OptRef("tb", h.target_bone)
    \o OptRef("pv", h.pole_vector_bone)
    \o OptRef("pb", h.pole_bone)

EmitIKHandle ==
    /\ pc = "ik_handles"
    /\ LET ik_handle == model.skeleton.ik_handles[i + 1]
           handle_node == Len(nodes) + 1
           named == CreateProperties(Create(nodes, skeleton_node, "IKHandle", hash_next),
                                     handle_node, OptName(ik_handle.name))
           refs == PushBoneRefs(named, handle_node, IKHandleRefs(ik_handle), bone_map)
       IN IF refs.ok
          THEN /\ nodes' = CreateProperty(refs.ns, handle_node, "Byte", "tr",
                                          <<BoolAsU8(ik_handle.use_target_rotation)>>)
               /\ pc' = GotoIKHandles(model, i + 1)[1]
               /\ i' = GotoIKHandles(model, i + 1)[2]
               /\ result' = result
          ELSE /\ nodes' = refs.ns
               /\ pc' = "done"
               /\ i' = i
               /\ result' = "Panic"
    /\ hash_next' = hash_next + 1
    /\ UNCHANGED <<model, skeleton_node, cur_node, bone_map, material_map, mesh_map,
                   used_slots, j, file, handle_open>>
    /\ UNCHANGED <<container_vars, tga_vars, main_vars, splash_vars>>

ConstraintTypeName(ct) == CASE ct = "Point" -> "pt" [] ct = "Orient" -> "or" [] ct = "Scale" -> "sc"

ConstraintRefs(c) == <<Ref("cb", c.constraint_bone), Ref("tb", c.target_bone)>>

EmitConstraint ==
    /\ pc = "constraints"
    /\ LET constraint == model.skeleton.constraints[i + 1]
           constraint_node == Len(nodes) + 1
           named == CreateProperties(Create(nodes, skeleton_node, "Constraint", hash_next),
                        constraint_node,
                        OptName(constraint.name)
                        \o <<P("String", "ct", <<ConstraintTypeName(constraint.constraint_type)>>)>>)
           refs == PushBoneRefs(named, constraint_node, ConstraintRefs(constraint), bone_map)
       IN IF refs.ok
          THEN /\ nodes' = CreateProperties(refs.ns, constraint_node,
                              <<P("Byte", "mo", <<BoolAsU8(constraint.maintain_offset)>>),
                                P("Byte", "sx", <<BoolAsU8(constraint.skip_x)>>),
                                P("Byte", "sy", <<BoolAsU8(constraint.skip_y)>>),
                                P("Byte", "sz", <<BoolAsU8(constraint.skip_z)>>)>>)
               /\ pc' = GotoConstraints(model, i + 1)[1]
               /\ i' = GotoConstraints(model, i + 1)[2]
               /\ result' = result
          ELSE /\ nodes' = refs.ns
               /\ pc' = "done"
               /\ i' = i
               /\ result' = "Panic"
    /\ hash_next' = hash_next + 1
    /\ UNCHANGED <<model, skeleton_node, cur_node, bone_map, material_map, mesh_map,
                   used_slots, j, file, handle_open>>
    /\ UNCHANGED <<container_vars, tga_vars, main_vars, splash_vars>>

(***************************************************************************)
(* to_cast: materials.                                                     *)
(***************************************************************************)
Extra(idx) == "extra" \o Decimal(idx)

\* match texture.texture_usage { .. }
SlotName(usage, idx) ==
    CASE usage = "Albedo" -> "albedo"
      [] usage = "Diffuse" -> "diffuse"
      [] usage = "Specular" -> "specular"
      [] usage = "Normal" -> "normal"
      [] usage = "Emissive" -> "emissive"
      [] usage = "Gloss" -> "gloss"
      [] usage = "Roughness" -> "roughness"
      [] usage = "AmbientOcclusion" -> "ao"
      [] usage = "Cavity" -> "cavity"
      [] usage = "Metalness" -> "metal"
      [] usage = "Anisotropy" -> "aniso"
      [] usage \in {"Unknown", "Count"} -> Extra(idx)

ChooseSlotNoFallback(used, slot, idx) == slot

ChooseSlotByCount(used, slot, idx) ==
    IF slot \in used THEN Extra(Cardinality(used)) ELSE slot

\* if used_slots.contains(&slot) { format!("extra{i}") } else { slot }
ChooseSlot(used, slot, idx) == IF slot \in used THEN Extra(idx) ELSE slot

\* used_slots after the choice: the semantic name is inserted, a fallback is not.
UsedAfter(used, slot) == IF slot \in used THEN used ELSE used \cup {slot}

EmitMaterial ==
    /\ pc = "materials"
    /\ LET material == model.materials[i + 1]
           material_node == Len(nodes) + 1
           built == CreateProperties(Create(nodes, ModelNode, "Material", hash_next),
                       material_node,
                       <<P("String", "n", <<material.name>>), P("String", "t", <<"pbr">>)>>)
       IN /\ nodes' = built
          /\ cur_node' = material_node
          /\ IF Len(material.textures) > 0
             THEN /\ pc' = "textures"
                  /\ i' = i
                  /\ material_map' = material_map
             ELSE /\ pc' = GotoMaterials(model, i + 1)[1]
                  /\ i' = GotoMaterials(model, i + 1)[2]
                  /\ material_map' = Insert(material_map, i, HashRefOf(built, material_node))
    /\ hash_next' = hash_next + 1
    /\ used_slots' = {}
    /\ j' = 0
    /\ UNCHANGED <<model, skeleton_node, bone_map, mesh_map, file, handle_open, result>>
    /\ UNCHANGED <<container_vars, tga_vars, main_vars, splash_vars>>

EmitTexture ==
    /\ pc = "textures"
    /\ LET material == model.materials[i + 1]
           texture == material.textures[j + 1]
           file_node == Len(nodes) + 1
           with_file == CreateProperty(Create(nodes, cur_node, "File", hash_next),
                                       file_node, "String", "p", <<texture.file_name>>)
           slot == SlotName(texture.texture_usage, j)
           built == CreateProperty(with_file, cur_node, "Integer64",
                                   ChooseSlot(used_slots, slot, j),
                                   <<HashRefOf(with_file, file_node)>>)
       IN /\ nodes' = built
          /\ used_slots' = UsedAfter(used_slots, slot)
          /\ IF j + 1 < Len(material.textures)
             THEN /\ pc' = pc
                  /\ i' = i
                  /\ j' = j + 1
                  /\ material_map' = material_map
             ELSE /\ pc' = GotoMaterials(model, i + 1)[1]
                  /\ i' = GotoMaterials(model, i + 1)[2]
                  /\ j' = 0
                  /\ material_map' = Insert(material_map, i, HashRefOf(built, cur_node))
    /\ hash_next' = hash_next + 1
    /\ UNCHANGED <<model, skeleton_node, cur_node, bone_map, mesh_map, file,
                   handle_open, result>>
    /\ UNCHANGED <<container_vars, tga_vars, main_vars, splash_vars>>

(***************************************************************************)
(* to_cast: meshes and blend shapes.                                       *)
(***************************************************************************)
FaceTagByMaxIndex(mesh) == WidthTag(mesh.vertices.len - 1)

\* The width of the face index property 'f'.
FaceTag(mesh) == WidthTag(mesh.vertices.len)

FaceIndicesForward(mesh) ==
    [k \in 1..(3 * Len(mesh.faces)) |->
        LET face == mesh.faces[((k - 1) \div 3) + 1]
            r == (k - 1) % 3
        IN Narrow(FaceTag(mesh), IF r = 0 THEN face.i1 ELSE IF r = 1 THEN face.i2 ELSE face.i3)]

\* The three indices of every face, third first.
FaceIndices(mesh) ==
    [k \in 1..(3 * Len(mesh.faces)) |->
        LET face == mesh.faces[((k - 1) \div 3) + 1]
            r == (k - 1) % 3
        IN Narrow(FaceTag(mesh), IF r = 0 THEN face.i3 ELSE IF r = 1 THEN face.i2 ELSE face.i1)]

\* One flat property per vertex attribute, in vertex order.
VertexStreams(mesh) ==
    LET len == mesh.vertices.len IN
    <<P("Vector3", "vp", [v \in 1..len |-> VertexPosition(mesh, v - 1)]),
      P("Vector3", "vn", [v \in 1..len |-> VertexNormal(mesh, v - 1)])>>
    \o [cl \in 1..mesh.vertices.colors |->
           P("Integer32", "c" \o Decimal(cl - 1),
             [v \in 1..len |-> VertexColor(mesh, v - 1, cl - 1)])]
    \o [uv \in 1..mesh.vertices.uv_layers |->
           P("Vector2", "u" \o Decimal(uv - 1),
             [v \in 1..len |-> VertexUV(mesh, v - 1, uv - 1)])]

WeightStreamsByInfluence(mesh, bone_count) ==
    LET mi == mesh.vertices.maximum_influence
        len == mesh.vertices.len
        count == len * mi
        tag == WidthTag(bone_count)
    IN <<P(tag, "wb", [k \in 1..count |->
              Narrow(tag, VertexWeight(mesh, (k - 1) % len, (k - 1) \div len).bone)]),
         P("Float", "wv", [k \in 1..count |->
              VertexWeight(mesh, (k - 1) % len, (k - 1) \div len).value])>>

\* The weight streams, with a stride of maximum_influence per vertex.
WeightStreams(mesh, bone_count) ==
    LET mi == mesh.vertices.maximum_influence
        count == mesh.vertices.len * mi
        tag == WidthTag(bone_count)
    IN <<P(tag, "wb", [k \in 1..count |->
              Narrow(tag, VertexWeight(mesh, (k - 1) \div mi, (k - 1) % mi).bone)]),
         P("Float", "wv", [k \in 1..count |->
              VertexWeight(mesh, (k - 1) \div mi, (k - 1) % mi).value])>>

SkinningMethodName(sm) == CASE sm = "Linear" -> "linear" [] sm = "DualQuaternion" -> "quaternion"

MeshPropsMaterialIndex(m, mesh, materials) ==
    OptName(mesh.name)
    \o <<P("Byte", "ul", <<Narrow("Byte", mesh.vertices.uv_layers)>>),
         P("Byte", "mi", <<Narrow("Byte", mesh.vertices.maximum_influence)>>),
         P("Byte", "cl", <<Narrow("Byte", mesh.vertices.colors)>>),
         P("String", "sm", <<SkinningMethodName(mesh.skinning_method)>>)>>
    \o VertexStreams(mesh)
    \o (IF m.skeleton.bones # <<>> THEN WeightStreams(mesh, Len(m.skeleton.bones)) ELSE <<>>)
    \o <<P(FaceTag(mesh), "f", FaceIndices(mesh))>>
    \o (IF IsSome(mesh.material) /\ Get(mesh.material) \in DOMAIN materials
        THEN <<P("Integer64", "m", <<Get(mesh.material)>>)>> ELSE <<>>)

\* The properties of one Mesh node, in the order they are created.
MeshProps(m, mesh, materials) ==
    OptName(mesh.name)
    \o <<P("Byte", "ul", <<Narrow("Byte", mesh.vertices.uv_layers)>>),
         P("Byte", "mi", <<Narrow("Byte", mesh.vertices.maximum_influence)>>),
         P("Byte", "cl", <<Narrow("Byte", mesh.vertices.colors)>>),
         P("String", "sm", <<SkinningMethodName(mesh.skinning_method)>>)>>
    \o VertexStreams(mesh)
    \o (IF m.skeleton.bones # <<>> THEN WeightStreams(mesh, Len(m.skeleton.bones)) ELSE <<>>)
    \o <<P(FaceTag(mesh), "f", FaceIndices(mesh))>>
    \o (IF IsSome(mesh.material) /\ Get(mesh.material) \in DOMAIN materials
        THEN <<P("Integer64", "m", <<materials[Get(mesh.material)]>>)>> ELSE <<>>)

EmitMesh ==
    /\ pc = "meshes"
    /\ LET mesh == model.meshes[i + 1]
           mesh_node == Len(nodes) + 1
           built == CreateProperties(Create(nodes, ModelNode, "Mesh", hash_next),
                                     mesh_node, MeshProps(model, mesh, material_map))
       IN /\ nodes' = built
          /\ cur_node' = mesh_node
          /\ mesh_map' = Insert(mesh_map, i, HashRefOf(built, mesh_node))
          /\ IF Len(mesh.blend_shapes) > 0
             THEN /\ pc' = "blend_shapes"
                  /\ i' = i
             ELSE /\ pc' = GotoMeshes(model, i + 1)[1]
                  /\ i' = GotoMeshes(model, i + 1)[2]
    /\ hash_next' = hash_next + 1
    /\ j' = 0
    /\ UNCHANGED <<model, skeleton_node, bone_map, material_map, used_slots, file,
                   handle_open, result>>
    /\ UNCHANGED <<container_vars, tga_vars, main_vars, splash_vars>>

\* blend_shape.vertex_deltas.keys().copied().max().unwrap_or_default()
IndicesSize(blend_shape) ==
    IF DOMAIN blend_shape.vertex_deltas = {} THEN 0 ELSE Max(DOMAIN blend_shape.vertex_deltas)

ShapeIndexTagByVertexCount(mesh, blend_shape) == WidthTag(mesh.vertices.len)

\* The width of the blend shape index property 'vi'.
ShapeIndexTag(mesh, blend_shape) == WidthTag(IndicesSize(blend_shape))

ShapePositionsRawDelta(mesh, blend_shape) ==
    [k \in 1..Len(blend_shape.keys) |-> blend_shape.vertex_deltas[blend_shape.keys[k]]]

\* for (vertex_index, vertex_position_delta) in &blend_shape.vertex_deltas
ShapePositions(mesh, blend_shape) ==
    [k \in 1..Len(blend_shape.keys) |->
        VecAdd(VertexPosition(mesh, blend_shape.keys[k]),
               blend_shape.vertex_deltas[blend_shape.keys[k]])]

\* for index in blend_shape.vertex_deltas.keys()
ShapeIndices(mesh, blend_shape) ==
    [k \in 1..Len(blend_shape.keys) |->
        Narrow(ShapeIndexTag(mesh, blend_shape), blend_shape.keys[k])]

BlendShapePropsIfDeltas(mesh, blend_shape, mesh_hash) ==
    <<P("String", "n", <<blend_shape.name>>)>>
    \o (IF blend_shape.keys = <<>> THEN <<>>
        ELSE <<P("Integer64", "b", <<mesh_hash>>),
               P("Float", "ts", <<blend_shape.target_scale>>)>>)
    \o <<P(ShapeIndexTag(mesh, blend_shape), "vi", ShapeIndices(mesh, blend_shape)),
         P("Vector3", "vp", ShapePositions(mesh, blend_shape))>>

BlendShapeProps(mesh, blend_shape, mesh_hash) ==
    <<P("String", "n", <<blend_shape.name>>),
      P("Integer64", "b", <<mesh_hash>>),
      P("Float", "ts", <<blend_shape.target_scale>>),
      P(ShapeIndexTag(mesh, blend_shape), "vi", ShapeIndices(mesh, blend_shape)),
      P("Vector3", "vp", ShapePositions(mesh, blend_shape))>>

EmitBlendShape ==
    /\ pc = "blend_shapes"
    /\ LET mesh == model.meshes[i + 1]
           blend_shape == mesh.blend_shapes[j + 1]
           blend_shape_node == Len(nodes) + 1
       IN /\ nodes' = CreateProperties(Create(nodes, ModelNode, "BlendShape", hash_next),
                         blend_shape_node,
                         BlendShapeProps(mesh, blend_shape, HashRefOf(nodes, cur_node)))
          /\ IF j + 1 < Len(mesh.blend_shapes)
             THEN /\ pc' = pc
                  /\ i' = i
                  /\ j' = j + 1
             ELSE /\ pc' = GotoMeshes(model, i + 1)[1]
                  /\ i' = GotoMeshes(model, i + 1)[2]
                  /\ j' = 0
    /\ hash_next' = hash_next + 1
    /\ UNCHANGED <<model, skeleton_node, cur_node, bone_map, material_map, mesh_map,
                   used_slots, file, handle_open, result>>
    /\ UNCHANGED <<container_vars, tga_vars, main_vars, splash_vars>>

(***************************************************************************)
(* to_cast: the output file.  file is what is at the target path:          *)
(* "absent", "empty" (created, no byte written), "partial" (some but not   *)
(* all bytes of the serialized tree) or "complete".                        *)
(***************************************************************************)
\* File::create(..)? succeeded: the file exists and is empty.
CreateFileOk ==
    /\ pc = "create_file"
    /\ file' = "empty"
    /\ handle_open' = TRUE
    /\ pc' = "write"
    /\ UNCHANGED <<model, nodes, hash_next, skeleton_node, cur_node, bone_map,
                   material_map, mesh_map, used_slots, i, j, result>>
    /\ UNCHANGED <<container_vars, tga_vars, main_vars, splash_vars>>

\* File::create(..)? failed: the error is returned.
CreateFileErr ==
    /\ pc = "create_file"
    /\ result' = "ErrIo"
    /\ pc' = "done"
    /\ UNCHANGED <<model, nodes, hash_next, skeleton_node, cur_node, bone_map,
                   material_map, mesh_map, used_slots, i, j, file, handle_open>>
    /\ UNCHANGED <<container_vars, tga_vars, main_vars, splash_vars>>

\* Outcome of CastFile::write(writer) on the created file.
Outcome(r, f) == [result |-> r, file |-> f]

WriteOutcomesUnflushed ==
    {Outcome("Ok", "complete"), Outcome("Ok", "partial"),
     Outcome("ErrIo", "empty"), Outcome("ErrIo", "partial")}

\* The outcomes of CastFile::write(writer): Ok once every byte, those of the
\* write buffer included, reached the file; otherwise an I/O error, before or
\* after some bytes reached the file.
WriteOutcomes ==
    {Outcome("Ok", "complete"), Outcome("ErrIo", "empty"), Outcome("ErrIo", "partial")}

HandleKeptOnError(o) == o.result # "Ok"

\* Whether to_cast still holds the file handle after file.write(writer)
\* returned o: writer was moved into the call and is dropped by it.
HandleAfterWrite(o) == FALSE

\* file.write(writer)? succeeded.
WriteOk ==
    /\ pc = "write"
    /\ \E o \in WriteOutcomes :
          /\ o.result = "Ok"
          /\ file' = o.file
          /\ handle_open' = HandleAfterWrite(o)
          /\ result' = o.result
    /\ pc' = "done"
    /\ UNCHANGED <<model, nodes, hash_next, skeleton_node, cur_node, bone_map,
                   material_map, mesh_map, used_slots, i, j>>
    /\ UNCHANGED <<container_vars, tga_vars, main_vars, splash_vars>>

\* file.write(writer)? failed: the error is returned.
WriteErr ==
    /\ pc = "write"
    /\ \E o \in WriteOutcomes :
          /\ o.result # "Ok"
          /\ file' = o.file
          /\ handle_open' = HandleAfterWrite(o)
          /\ result' = o.result
    /\ pc' = "done"
    /\ UNCHANGED <<model, nodes, hash_next, skeleton_node, cur_node, bone_map,
                   material_map, mesh_map, used_slots, i, j>>
    /\ UNCHANGED <<container_vars, tga_vars, main_vars, splash_vars>>

Next ==
    \/ Begin
    \/ EmitSkeleton
    \/ EmitBone
    \/ EmitIKHandle
    \/ EmitConstraint
    \/ EmitMaterial
    \/ EmitTexture
    \/ EmitMesh
    \/ EmitBlendShape
    \/ CreateFileOk
    \/ CreateFileErr
    \/ WriteOk
    \/ WriteErr

Spec == Init /\ [][Next]_vars

TypeOK ==
    /\ pc \in {"start", "skeleton", "bones", "ik_handles", "constraints", "materials",
               "textures", "meshes", "blend_shapes", "create_file", "write", "done"}
    /\ result \in {"running", "Ok", "ErrIo", "Panic"}
    /\ (result = "running") = (pc # "done")
    /\ file \in {"absent", "empty", "partial", "complete"}

(***************************************************************************)
(* Reading the tree back against the input.                                *)
(***************************************************************************)
\* The nodes of a kind, in creation order.
SeqOfKind(ns, kind) == SelectSeq([n \in 1..Len(ns) |-> n], LAMBDA n : ns[n].kind = kind)

Kinds(ns) == [n \in 1..Len(ns) |-> ns[n].kind]
IsPrefix(a, b) == Len(a) <= Len(b) /\ \A k \in 1..Len(a) : a[k] = b[k]
Repeat(x, n) == [k \in 1..n |-> x]

RECURSIVE Flatten(_)
Flatten(ss) == IF ss = <<>> THEN <<>> ELSE Head(ss) \o Flatten(Tail(ss))

\* The width the minimal-width rule gives a stream bounded by m.
SmallestWidth(m) ==
    IF m <= 255 THEN "Byte" ELSE IF m <= 65535 THEN "Short" ELSE "Integer32"

TreeBuilt == pc \in {"create_file", "write"} \/ (pc = "done" /\ result # "Panic")

(***************************************************************************)
(* C1.  A required bone reference of an IK handle or constraint that is    *)
(* outside 0..bone_count makes to_cast return a reference-resolution error *)
(* and leaves no output file.                                              *)
(***************************************************************************)
RequiredRefMissing(m) ==
    LET bones == 0..(Len(m.skeleton.bones) - 1) IN
    /\ HasSkeleton(m)
    /\ \/ \E k \in 1..Len(m.skeleton.ik_handles) :
             \/ m.skeleton.ik_handles[k].start_bone \notin bones
             \/ m.skeleton.ik_handles[k].end_bone \notin bones
       \/ \E k \in 1..Len(m.skeleton.constraints) :
             \/ m.skeleton.constraints[k].constraint_bone \notin bones
             \/ m.skeleton.constraints[k].target_bone \notin bones

\* C1: with a required reference missing, to_cast ends with a returned
\* reference-resolution error and no file.
C1_ReferenceErrorReturned ==
    (pc = "done" /\ RequiredRefMissing(model))
        => (result = "ErrReference" /\ file = "absent")

(***************************************************************************)
(* C2.  Whenever to_cast fails, no output file exists at the target path.  *)
(***************************************************************************)
\* C2: a run that did not end with Ok leaves the target path without a file.
C2_NoFileOnFailure == (pc = "done" /\ result # "Ok") => file = "absent"

(***************************************************************************)
(* C3.  No two nodes of the tree share an identity, and the identity of a  *)
(* node never changes once it is created.                                  *)
(***************************************************************************)
UniqueHashes(ns) == \A a, b \in 1..Len(ns) : a # b => ns[a].hash # ns[b].hash

\* C3: every step of to_cast leaves all identities pairwise distinct and keeps
\* the identity of every node that already exists.
C3_IdentityUniqueAndStable ==
    [][/\ UniqueHashes(nodes')
       /\ \A n \in 1..Len(nodes) : n <= Len(nodes') /\ nodes'[n].hash = nodes[n].hash]_vars

C3_Witness ==
    /\ result = "Ok"
    /\ NodesOfKind(nodes, "Bone") # {}
    /\ NodesOfKind(nodes, "File") # {}
    /\ NodesOfKind(nodes, "BlendShape") # {}

(***************************************************************************)
(* C5.  The width of the face index property.                              *)
(***************************************************************************)
MaxFaceIndex(mesh) ==
    IF mesh.faces = <<>> THEN 0
    ELSE Max(UNION {{mesh.faces[k].i1, mesh.faces[k].i2, mesh.faces[k].i3} :
                      k \in 1..Len(mesh.faces)})

\* C5 as claimed: 'f' has the smallest width that holds the largest face index
\* of the mesh (for a mesh that has faces).
C5_FaceWidthOfMaxIndex ==
    LET mesh_nodes == SeqOfKind(nodes, "Mesh") IN
    \A k \in 1..Len(mesh_nodes) :
        model.meshes[k].faces # <<>> =>
            Prop(nodes[mesh_nodes[k]], "f").tag = SmallestWidth(MaxFaceIndex(model.meshes[k]))

\* C5 as amended: 'f' has the smallest width that holds the vertex count of the
\* mesh: 8-bit iff count <= 255, 16-bit iff 255 < count <= 65535, else 32-bit.
C5_FaceWidthOfVertexCount ==
    LET mesh_nodes == SeqOfKind(nodes, "Mesh") IN
    \A k \in 1..Len(mesh_nodes) :
        /\ Cardinality(PropsNamed(nodes[mesh_nodes[k]], "f")) = 1
        /\ Prop(nodes[mesh_nodes[k]], "f").tag = SmallestWidth(model.meshes[k].vertices.len)

C5_Witness ==
    /\ result = "Ok"
    /\ Len(model.meshes) = 1
    /\ model.meshes[1].vertices.len = 256
    /\ MaxFaceIndex(model.meshes[1]) = 255
    /\ \E n \in NodesOfKind(nodes, "Mesh") : Prop(nodes[n], "f").tag = "Short"

(***************************************************************************)
(* C6, C7.  Slot names of the textures of a material.                      *)
(***************************************************************************)
\* The slot properties of a Material node: all but "n" and "t", in order.
SlotProps(node) == SubSeq(node.props, 3, Len(node.props))

FirstOfItsSlot(textures, t) ==
    \A e \in 1..(t - 1) :
        SlotName(textures[e].texture_usage, e - 1) # SlotName(textures[t].texture_usage, t - 1)

\* C6: of the textures of a material that map to one slot name the first keeps
\* the name and every later one is named "extra{i}" after its index i; each
\* texture has its own File node, referenced by its own slot property.
C6_FirstKeepsSlotName ==
    LET material_nodes == SeqOfKind(nodes, "Material") IN
    \A k \in 1..Len(material_nodes) :
        LET node == nodes[material_nodes[k]]
            textures == model.materials[k].textures
            files == SeqOfKind(nodes, "File")
            own == SelectSeq(files, LAMBDA n : nodes[n].parent = material_nodes[k])
        IN /\ Len(SlotProps(node)) = Len(own)
           /\ \A t \in 1..Len(own) :
                /\ SlotProps(node)[t].name =
                      IF FirstOfItsSlot(textures, t)
                      THEN SlotName(textures[t].texture_usage, t - 1)
                      ELSE "extra" \o ToString(t - 1)
                /\ SlotProps(node)[t].tag = "Integer64"
                /\ SlotProps(node)[t].vals = <<nodes[own[t]].hash>>

C6_Witness ==
    /\ result = "Ok"
    /\ \E n \in NodesOfKind(nodes, "Material") :
          /\ Len(SlotProps(nodes[n])) = 3
          /\ SlotProps(nodes[n])[1].name = "albedo"
          /\ SlotProps(nodes[n])[2].name = "extra1"
          /\ SlotProps(nodes[n])[3].name = "extra2"
    /\ \E k \in 1..Len(model.materials) :
          /\ Len(model.materials[k].textures) = 3
          /\ \A t \in 1..3 : model.materials[k].textures[t].texture_usage = "Albedo"

\* The k-th material is past its texture loop.
MaterialEmitted(k) ==
    /\ k <= Len(SeqOfKind(nodes, "Material"))
    /\ ~(pc = "textures" /\ i = k - 1)

\* C7: the slot property names of a Material node are pairwise distinct, and
\* once the material is emitted there is one per texture.
C7_SlotNamesDistinct ==
    LET material_nodes == SeqOfKind(nodes, "Material") IN
    \A k \in 1..Len(material_nodes) :
        LET slots == SlotProps(nodes[material_nodes[k]]) IN
        /\ \A a, b \in 1..Len(slots) : a # b => slots[a].name # slots[b].name
        /\ MaterialEmitted(k) => Len(slots) = Len(model.materials[k].textures)

C7_Witness ==
    /\ result = "Ok"
    /\ \E k \in 1..Len(model.materials) :
          /\ Len(model.materials[k].textures) = 3
          /\ model.materials[k].textures[1].texture_usage = "Unknown"
          /\ model.materials[k].textures[2].texture_usage = "Albedo"
          /\ model.materials[k].textures[3].texture_usage = "Albedo"
          /\ Len(SlotProps(nodes[SeqOfKind(nodes, "Material")[k]])) = 3

(***************************************************************************)
(* C8.  Blend shapes are sparse and 'vi' is as wide as its largest index.  *)
(***************************************************************************)
\* The [mesh, shape] pairs of a model, in the order to_cast visits them.
ShapesOf(m) ==
    Flatten([k \in 1..Len(m.meshes) |->
               [e \in 1..Len(m.meshes[k].blend_shapes) |->
                   [mesh |-> m.meshes[k], shape |-> m.meshes[k].blend_shapes[e]]]])

Elements(seq) == {seq[k] : k \in 1..Len(seq)}

\* C8: 'vi' and 'vp' of a BlendShape node hold one element per entry of the
\* delta map, 'vi' holds exactly the keys of the map, and its width is the
\* smallest that holds the largest key, whatever the vertex count of the mesh.
C8_BlendShapeSparse ==
    LET shape_nodes == SeqOfKind(nodes, "BlendShape") IN
    \A k \in 1..Len(shape_nodes) :
        LET node == nodes[shape_nodes[k]]
            keys == DOMAIN ShapesOf(model)[k].shape.vertex_deltas
        IN /\ Len(Prop(node, "vi").vals) = Cardinality(keys)
           /\ Len(Prop(node, "vp").vals) = Cardinality(keys)
           /\ Elements(Prop(node, "vi").vals) = keys
           /\ keys # {} => Prop(node, "vi").tag = SmallestWidth(Max(keys))

C8_Witness ==
    /\ result = "Ok"
    /\ Len(model.meshes) = 1
    /\ model.meshes[1].vertices.len = 1000
    /\ DOMAIN model.meshes[1].blend_shapes[1].vertex_deltas = {3, 999}
    /\ \E n \in NodesOfKind(nodes, "BlendShape") :
          /\ Prop(nodes[n], "vi").tag = "Short"
          /\ Len(Prop(nodes[n], "vi").vals) = 2
          /\ Len(Prop(nodes[n], "vp").vals) = 2

(***************************************************************************)
(* C9.  Transform properties of a bone come in pairs; scale is on its own. *)
(***************************************************************************)
\* C9: a Bone node has 'lp' and 'lr' iff the bone has both local position and
\* local rotation, 'wp' and 'wr' iff it has both world position and world
\* rotation, and 's' iff it has a scale.
C9_TransformPairs ==
    LET bone_nodes == SeqOfKind(nodes, "Bone") IN
    \A k \in 1..Len(bone_nodes) :
        LET node == nodes[bone_nodes[k]]
            bone == model.skeleton.bones[k]
            local == IsSome(bone.local_position) /\ IsSome(bone.local_rotation)
            world == IsSome(bone.world_position) /\ IsSome(bone.world_rotation)
        IN /\ HasProp(node, "lp") <=> local
           /\ HasProp(node, "lr") <=> local
           /\ HasProp(node, "wp") <=> world
           /\ HasProp(node, "wr") <=> world
           /\ HasProp(node, "s") <=> IsSome(bone.local_scale)

C9_Witness ==
    /\ result = "Ok"
    /\ \E k \in 1..Len(model.skeleton.bones) :
          LET bone == model.skeleton.bones[k]
              node == nodes[SeqOfKind(nodes, "Bone")[k]]
          IN /\ IsSome(bone.local_position) /\ ~IsSome(bone.local_rotation)
             /\ ~IsSome(bone.world_position) /\ IsSome(bone.world_rotation)
             /\ IsSome(bone.local_scale)
             /\ PropNames(node) = <<"n", "p", "s">>

(***************************************************************************)
(* C10.  The order in which to_cast creates the nodes.                     *)
(***************************************************************************)
\* The kinds of the nodes of a model in the claimed order of creation.
ExpectedKinds(m) ==
    <<"Root", "Metadata", "Model">>
    \o (IF m.skeleton.bones # <<>>
        THEN <<"Skeleton">> \o Repeat("Bone", Len(m.skeleton.bones))
             \o Repeat("IKHandle", Len(m.skeleton.ik_handles))
             \o Repeat("Constraint", Len(m.skeleton.constraints))
        ELSE <<>>)
    \o Flatten([k \in 1..Len(m.materials) |->
                  <<"Material">> \o Repeat("File", Len(m.materials[k].textures))])
    \o Flatten([k \in 1..Len(m.meshes) |->
                  <<"Mesh">> \o Repeat("BlendShape", Len(m.meshes[k].blend_shapes))])

\* The kind of node a node of each kind is created under.
ParentKind(kind) ==
    CASE kind \in {"Metadata", "Model"} -> "Root"
      [] kind \in {"Skeleton", "Material", "Mesh", "BlendShape"} -> "Model"
      [] kind \in {"Bone", "IKHandle", "Constraint"} -> "Skeleton"
      [] kind = "File" -> "Material"

\* C10: the nodes created so far are the first nodes of the claimed order
\* (Root, Metadata, Model, the Skeleton if there are bones, the materials, then
\* each mesh followed by its blend shapes), each under its parent, and the
\* built tree holds all of them.
C10_CreationOrder ==
    /\ IsPrefix(Kinds(nodes), ExpectedKinds(model))
    /\ \A n \in 1..Len(nodes) :
          IF nodes[n].kind = "Root" THEN n = 1 /\ nodes[n].parent = 0
          ELSE /\ nodes[n].parent \in 1..(n - 1)
               /\ nodes[nodes[n].parent].kind = ParentKind(nodes[n].kind)
    /\ \A n \in NodesOfKind(nodes, "File") :
          \A e \in (nodes[n].parent + 1)..n : nodes[e].kind = "File"
    /\ TreeBuilt => Kinds(nodes) = ExpectedKinds(model)

C10_Witness ==
    /\ result = "Ok"
    /\ Len(model.meshes) = 2
    /\ \E a, b, c, d, e \in 1..Len(nodes) :
          /\ a < b /\ b < c /\ c < d /\ d < e
          /\ nodes[a].kind = "Skeleton"
          /\ nodes[b].kind = "Material"
          /\ nodes[c].kind = "Mesh"
          /\ nodes[d].kind = "BlendShape"
          /\ nodes[e].kind = "Mesh"

(***************************************************************************)
(* The cast container as a byte stream (crate porter_cast).  Per node:     *)
(* kind tag, identity, property count, the properties (name, type tag,     *)
(* element count, packed elements), child count, the children.  The        *)
(* identity is stored with the node so that references survive a round     *)
(* trip.  In this part names and strings are sequences of non-zero bytes,  *)
(* a float is its bit pattern, and a vector a tuple of floats.             *)
(***************************************************************************)
MaxCastSize == 4

NodeKindList == <<"Root", "Metadata", "Model", "Skeleton", "Bone", "IKHandle",
                  "Constraint", "Material", "File", "Mesh", "BlendShape">>
PropertyTagList == <<"Byte", "Short", "Integer32", "Integer64", "Float", "String",
                     "Vector2", "Vector3", "Vector4">>

IndexIn(list, x) == CHOOSE k \in 1..Len(list) : list[k] = x

\* The number of floats of a vector tag.
VectorSize(tag) == CASE tag = "Vector2" -> 2 [] tag = "Vector3" -> 3 [] tag = "Vector4" -> 4

\* The width in bytes of an integer or float tag.
ScalarWidth(tag) ==
    CASE tag = "Byte" -> 1 [] tag = "Short" -> 2 [] tag = "Integer32" -> 4
      [] tag = "Integer64" -> 8 [] tag = "Float" -> 4

IsVector(tag) == tag \in {"Vector2", "Vector3", "Vector4"}

\* n in w bytes, least significant first.
RECURSIVE ToLE(_, _)
ToLE(n, w) == IF w = 0 THEN <<>> ELSE <<n % 256>> \o ToLE(n \div 256, w - 1)

\* The number in the w bytes of bytes from pos on.
RECURSIVE FromLE(_, _, _)
FromLE(bytes, pos, w) ==
    IF w = 0 THEN 0 ELSE bytes[pos] + 256 * FromLE(bytes, pos + 1, w - 1)

EncodeElement(tag, v) ==
    IF tag = "String" THEN v \o <<0>>
    ELSE IF IsVector(tag) THEN Flatten([k \in 1..VectorSize(tag) |-> ToLE(v[k], 4)])
    ELSE ToLE(v, ScalarWidth(tag))

EncodeProperty(prop) ==
    prop.name \o <<0>>
    \o <<IndexIn(PropertyTagList, prop.tag)>>
    \o ToLE(Len(prop.vals), 4)
    \o Flatten([k \in 1..Len(prop.vals) |-> EncodeElement(prop.tag, prop.vals[k])])

\* The children of a node, in the order they were created.
ChildSeq(ns, n) == SelectSeq([k \in 1..Len(ns) |-> k], LAMBDA k : ns[k].parent = n)

WrittenChildrenReversed(ns, n) ==
    [k \in 1..Len(ChildSeq(ns, n)) |-> ChildSeq(ns, n)[Len(ChildSeq(ns, n)) + 1 - k]]

\* The children of node n in the order the writer emits them: creation order.
WrittenChildren(ns, n) ==
    ChildSeq(ns, n)

RECURSIVE EncodeNode(_, _)
EncodeNode(ns, n) ==
    <<IndexIn(NodeKindList, ns[n].kind)>>
    \o ToLE(ns[n].hash, 8)
    \o ToLE(Len(ns[n].props), 4)
    \o Flatten([k \in 1..Len(ns[n].props) |-> EncodeProperty(ns[n].props[k])])
    \o ToLE(Len(WrittenChildren(ns, n)), 4)
    \o Flatten([k \in 1..Len(WrittenChildren(ns, n)) |-> EncodeNode(ns, WrittenChildren(ns, n)[k])])

\* CastFile::write of a file whose roots are the nodes without a parent.
EncodeFile(ns) ==
    Flatten([k \in 1..Len(WrittenChildren(ns, 0)) |-> EncodeNode(ns, WrittenChildren(ns, 0)[k])])

\* A node with its children inside it: what a reader builds.
RECURSIVE Nested(_, _)
Nested(ns, n) ==
    [kind |-> ns[n].kind, hash |-> ns[n].hash, props |-> ns[n].props,
     children |-> [k \in 1..Len(ChildSeq(ns, n)) |-> Nested(ns, ChildSeq(ns, n)[k])]]

(***************************************************************************)
(* Reading.  Every reader returns [ok, value, pos]: whether the bytes from *)
(* pos on were well formed, what they hold, and the position after them.   *)
(***************************************************************************)
Bad == [ok |-> FALSE, value |-> <<>>, pos |-> 0]
Good(value, pos) == [ok |-> TRUE, value |-> value, pos |-> pos]
Has(bytes, pos, w) == pos + w - 1 <= Len(bytes)

\* A null-terminated run of bytes.
RECURSIVE ReadCStr(_, _, _)
ReadCStr(bytes, pos, acc) ==
    IF ~Has(bytes, pos, 1) THEN Bad
    ELSE IF bytes[pos] = 0 THEN Good(acc, pos + 1)
    ELSE ReadCStr(bytes, pos + 1, Append(acc, bytes[pos]))

RECURSIVE ReadFloats(_, _, _, _)
ReadFloats(bytes, pos, count, acc) ==
    IF count = 0 THEN Good(acc, pos)
    ELSE IF ~Has(bytes, pos, 4) THEN Bad
    ELSE ReadFloats(bytes, pos + 4, count - 1, Append(acc, FromLE(bytes, pos, 4)))

ReadElement(tag, bytes, pos) ==
    IF tag = "String" THEN ReadCStr(bytes, pos, <<>>)
    ELSE IF IsVector(tag) THEN ReadFloats(bytes, pos, VectorSize(tag), <<>>)
    ELSE IF ~Has(bytes, pos, ScalarWidth(tag)) THEN Bad
    ELSE Good(FromLE(bytes, pos, ScalarWidth(tag)), pos + ScalarWidth(tag))

RECURSIVE ReadElements(_, _, _, _, _)
ReadElements(tag, bytes, pos, count, acc) ==
    IF count = 0 THEN Good(acc, pos)
    ELSE LET e == ReadElement(tag, bytes, pos) IN
         IF ~e.ok THEN Bad
         ELSE ReadElements(tag, bytes, e.pos, count - 1, Append(acc, e.value))

ReadProperty(bytes, pos) ==
    LET name == ReadCStr(bytes, pos, <<>>) IN
    IF ~name.ok \/ ~Has(bytes, name.pos, 5) THEN Bad
    ELSE IF bytes[name.pos] \notin 1..Len(PropertyTagList) THEN Bad
    ELSE LET tag == PropertyTagList[bytes[name.pos]]
             elems == ReadElements(tag, bytes, name.pos + 5,
                                   FromLE(bytes, name.pos + 1, 4), <<>>)
         IN IF ~elems.ok THEN Bad
            ELSE Good([name |-> name.value, tag |-> tag, vals |-> elems.value], elems.pos)

RECURSIVE ReadProperties(_, _, _, _)
ReadProperties(bytes, pos, count, acc) ==
    IF count = 0 THEN Good(acc, pos)
    ELSE LET prop == ReadProperty(bytes, pos) IN
         IF ~prop.ok THEN Bad
         ELSE ReadProperties(bytes, prop.pos, count - 1, Append(acc, prop.value))

RECURSIVE ReadNode(_, _)
RECURSIVE ReadNodes(_, _, _, _)
ReadNode(bytes, pos) ==
    IF ~Has(bytes, pos, 13) THEN Bad
    ELSE IF bytes[pos] \notin 1..Len(NodeKindList) THEN Bad
    ELSE LET props == ReadProperties(bytes, pos + 13, FromLE(bytes, pos + 9, 4), <<>>) IN
         IF ~props.ok \/ ~Has(bytes, props.pos, 4) THEN Bad
         ELSE LET kids == ReadNodes(bytes, props.pos + 4, FromLE(bytes, props.pos, 4), <<>>) IN
              IF ~kids.ok THEN Bad
              ELSE Good([kind |-> NodeKindList[bytes[pos]],
                         hash |-> FromLE(bytes, pos + 1, 8),
                         props |-> props.value,
                         children |-> kids.value], kids.pos)

ReadNodes(bytes, pos, count, acc) ==
    IF count = 0 THEN Good(acc, pos)
    ELSE LET node == ReadNode(bytes, pos) IN
         IF ~node.ok THEN Bad
         ELSE ReadNodes(bytes, node.pos, count - 1, Append(acc, node.value))

\* The roots of a stream, read until its end.
RECURSIVE ReadRoots(_, _, _)
ReadRoots(bytes, pos, acc) ==
    IF pos = Len(bytes) + 1 THEN Good(acc, pos)
    ELSE LET node == ReadNode(bytes, pos) IN
         IF ~node.ok THEN Bad
         ELSE ReadRoots(bytes, node.pos, Append(acc, node.value))

\* Reading a whole file: the roots, or a rejection of the whole file.
DecodeFile(bytes) ==
    LET roots == ReadRoots(bytes, 1, <<>>) IN
    [ok |-> roots.ok, roots |-> roots.value]

(***************************************************************************)
(* Building a tree through create / create_property / push, writing it and *)
(* reading it back.  Besides its root a tree holds at most MaxCastSize     *)
(* items (nodes, properties, elements); all but one of its items are plain *)
(* (a Mesh node, a Byte property, the byte 7).                             *)
(***************************************************************************)
\* The name of the k-th property of a node: "n", "vp", "m", "extra0".
CastNames == <<<<110>>, <<118, 112>>, <<109>>, <<101, 120, 116, 114, 97, 48>>>>

\* The values pushed as element e of a property of a tag: any byte sample,
\* the identity of any node as the first element of an Integer64 property,
\* and otherwise one sample value per position.
TagValues(tag, ns, e) ==
    CASE tag = "Byte" -> {0, 7, 255}
      [] tag = "Short" -> IF e % 2 = 1 THEN {258} ELSE {65535}
      [] tag = "Integer32" -> IF e % 2 = 1 THEN {16909060} ELSE {2147483647}
      [] tag = "Integer64" -> IF e = 1 THEN {ns[k].hash : k \in 1..Len(ns)} ELSE {0}
      [] tag = "Float" -> IF e % 2 = 1 THEN {1065353216} ELSE {0}
      [] tag = "String" -> {<<112, 98, 114>>}
      [] tag = "Vector2" -> {<<0, 1065353216>>}
      [] tag = "Vector3" -> {<<1065353216, 0, 1073741824>>}
      [] tag = "Vector4" -> {<<0, 0, 0, 1065353216>>}

Plain(ns) ==
    \A n \in 1..Len(ns) :
        /\ n > 1 => ns[n].kind = "Mesh"
        /\ \A k \in 1..Len(ns[n].props) :
              /\ ns[n].props[k].tag = "Byte"
              /\ \A e \in 1..Len(ns[n].props[k].vals) : ns[n].props[k].vals[e] = 7

RECURSIVE Sum(_)
Sum(seq) == IF seq = <<>> THEN 0 ELSE Head(seq) + Sum(Tail(seq))

\* The nodes besides the root, the properties and the elements of a tree.
Size(ns) ==
    Sum([n \in 1..Len(ns) |->
           Len(ns[n].props) + Sum([k \in 1..Len(ns[n].props) |-> Len(ns[n].props[k].vals)])])
    + Len(ns) - 1

\* CastPropertyValue pushed into property k of node n.
Push(ns, n, k, v) == [ns EXCEPT ![n].props[k].vals = Append(@, v)]

CastInit ==
    /\ model = Model("Y", BonesOnly(0), <<>>, <<>>)
    /\ pc = "build"
    /\ nodes = Create(<<>>, 0, "Root", U8Max)
    /\ hash_next = U8Max + 1
    /\ skeleton_node = 0
    /\ cur_node = 0
    /\ bone_map = EmptyMap
    /\ material_map = EmptyMap
    /\ mesh_map = EmptyMap
    /\ used_slots = {}
    /\ i = 0
    /\ j = 0
    /\ file = "absent"
    /\ handle_open = FALSE
    /\ result = "running"
    /\ stream = <<>>
    /\ decoded = <<>>
    /\ TgaIdle /\ MainIdle /\ SplashIdle

\* parent.create(kind)
CastCreate ==
    /\ pc = "build"
    /\ Size(nodes) < MaxCastSize
    /\ \E parent \in 1..Len(nodes), k \in 2..Len(NodeKindList) :
          /\ NodeKindList[k] = "Mesh" \/ Plain(nodes)
          /\ nodes' = Create(nodes, parent, NodeKindList[k], hash_next)
    /\ hash_next' = hash_next + 1
    /\ UNCHANGED <<pc, stream, decoded>>
    /\ UNCHANGED <<to_cast_vars, tga_vars, main_vars, splash_vars>>

\* node.create_property(tag, name)
CastCreateProperty ==
    /\ pc = "build"
    /\ Size(nodes) < MaxCastSize
    /\ \E n \in 1..Len(nodes), t \in 1..Len(PropertyTagList) :
          /\ Len(nodes[n].props) < Len(CastNames)
          /\ PropertyTagList[t] = "Byte" \/ Plain(nodes)
          /\ nodes' = CreateProperty(nodes, n, PropertyTagList[t],
                                     CastNames[Len(nodes[n].props) + 1], <<>>)
    /\ UNCHANGED <<pc, hash_next, stream, decoded>>
    /\ UNCHANGED <<to_cast_vars, tga_vars, main_vars, splash_vars>>

\* property.push(value), with a value of the property's type
CastPush ==
    /\ pc = "build"
    /\ Size(nodes) < MaxCastSize
    /\ \E n \in 1..Len(nodes) :
          \E k \in 1..Len(nodes[n].props) :
             \E v \in TagValues(nodes[n].props[k].tag, nodes, Len(nodes[n].props[k].vals) + 1) :
                /\ nodes[n].props[k].tag = "String" => nodes[n].props[k].vals = <<>>
                /\ (nodes[n].props[k].tag = "Byte" /\ v # 7) => Plain(nodes)
                /\ nodes' = Push(nodes, n, k, v)
    /\ UNCHANGED <<pc, hash_next, stream, decoded>>
    /\ UNCHANGED <<to_cast_vars, tga_vars, main_vars, splash_vars>>

\* file.push(root); file.write(writer)
CastWrite ==
    /\ pc = "build"
    /\ stream' = EncodeFile(nodes)
    /\ pc' = "written"
    /\ UNCHANGED <<nodes, hash_next, decoded>>
    /\ UNCHANGED <<to_cast_vars, tga_vars, main_vars, splash_vars>>

\* reading the written bytes back
CastRead ==
    /\ pc = "written"
    /\ decoded' = DecodeFile(stream)
    /\ pc' = "read"
    /\ UNCHANGED <<nodes, hash_next, stream>>
    /\ UNCHANGED <<to_cast_vars, tga_vars, main_vars, splash_vars>>

CastNext ==
    \/ CastCreate
    \/ CastCreateProperty
    \/ CastPush
    \/ CastWrite
    \/ CastRead

SpecCast == CastInit /\ [][CastNext]_vars

(***************************************************************************)
(* C4.  Round trip of a tree through the byte stream.                      *)
(***************************************************************************)
RECURSIVE NestedHashes(_)
NestedHashes(node) ==
    {node.hash} \cup UNION {NestedHashes(node.children[k]) : k \in 1..Len(node.children)}

\* The Integer64 values of a tree that are the identity of one of its nodes.
References(ns) ==
    UNION {UNION {{ns[n].props[k].vals[e] : e \in 1..Len(ns[n].props[k].vals)} :
                     k \in {k \in 1..Len(ns[n].props) : ns[n].props[k].tag = "Integer64"}} :
             n \in 1..Len(ns)}
    \cap {ns[n].hash : n \in 1..Len(ns)}

\* C4: the tree read back from the written bytes has the kinds, the property
\* names, tags and values in push order, the children in creation order and
\* the identities of the tree that was written, and every reference of the
\* written tree is the identity of a node of the tree read back.
C4_RoundTrip ==
    pc = "read" =>
        /\ decoded.ok
        /\ decoded.roots = <<Nested(nodes, 1)>>
        /\ References(nodes) \subseteq NestedHashes(decoded.roots[1])

C4_Witness ==
    /\ pc = "read"
    /\ decoded.ok
    /\ Len(decoded.roots[1].children) = 2
    /\ decoded.roots[1].children[2].hash = 257
    /\ References(nodes) # {}

(***************************************************************************)
(* C11.  A vertex weight naming a bone index that is not in the bone table *)
(* makes to_cast fail instead of emitting the index.                       *)
(***************************************************************************)
\* The meshes whose weights are emitted and name a bone outside 0..bone_count-1.
UnresolvedWeightMeshes(m) ==
    {k \in 1..Len(m.meshes) :
        /\ HasSkeleton(m)
        /\ m.meshes[k].vertices.len * m.meshes[k].vertices.maximum_influence > 0
        /\ m.meshes[k].weight_bone >= Len(m.skeleton.bones)}

\* C11: a run on a model with a vertex weight whose bone index is not below
\* bone_count does not end successfully.
C11_WeightBoneResolved ==
    (pc = "done" /\ UnresolvedWeightMeshes(model) # {}) => result # "Ok"

(***************************************************************************)
(* C12.  A mesh material reference without an entry in the material table  *)
(* makes to_cast return an error rather than succeed without 'm'.          *)
(***************************************************************************)
\* The meshes whose material index is not the index of a material.
UnresolvedMaterialMeshes(m) ==
    {k \in 1..Len(m.meshes) :
        /\ IsSome(m.meshes[k].material)
        /\ Get(m.meshes[k].material) >= Len(m.materials)}

\* C12: a run on a model with a mesh whose material index has no entry in
\* the material identity table does not end successfully.
C12_MaterialErrorReturned ==
    (pc = "done" /\ UnresolvedMaterialMeshes(model) # {}) => result # "Ok"

(***************************************************************************)
(* The index widths of to_cast on counts beyond 32 bits.  bone_count and   *)
(* vertex_count are usize, indices_size is a u32; a quantity is held as    *)
(* <<bits 32..63, bits 16..31, bits 0..15>>.  SpecWidth runs the width     *)
(* choices of to_cast for a model of one mesh with one blend shape that is *)
(* given by its counts alone.                                              *)
(***************************************************************************)
Wide(h, m, l) == <<h, m, l>>

\* if n <= 0xFF { Byte } else if n <= 0xFFFF { Short } else { Integer32 }
WidthTagWide(n) ==
    IF n[1] = 0 /\ n[2] = 0 /\ n[3] <= U8Max THEN "Byte"
    ELSE IF n[1] = 0 /\ n[2] = 0 THEN "Short"
    ELSE "Integer32"

\* Counts a usize holds, and those a u32 holds.
UsizeSamples ==
    {Wide(h, m, l) : h \in {0, 1}, m \in {0, 1, U16Max},
                     l \in {0, U8Max, U8Max + 1, U16Max}}
U32Samples == {n \in UsizeSamples : n[1] = 0}

Counts(bone_count, vertex_count, indices_size) ==
    [bone_count |-> bone_count, vertex_count |-> vertex_count,
     indices_size |-> indices_size]

CountedModels ==
    {Counts(b, Wide(0, 0, 3), Wide(0, 0, 0)) : b \in UsizeSamples}
    \cup {Counts(Wide(0, 0, 0), v, Wide(0, 0, 0)) : v \in UsizeSamples}
    \cup {Counts(Wide(0, 0, 0), Wide(0, 0, 3), s) : s \in U32Samples}

WidthInit ==
    /\ model \in CountedModels
    /\ pc = "weights"
    /\ nodes = Create(Create(Create(<<>>, 0, "Root", 1), 1, "Model", 2), 2, "Mesh", 3)
    /\ hash_next = 4
    /\ skeleton_node = 0
    /\ cur_node = 3
    /\ bone_map = EmptyMap
    /\ material_map = EmptyMap
    /\ mesh_map = EmptyMap
    /\ used_slots = {}
    /\ i = 0
    /\ j = 0
    /\ file = "absent"
    /\ handle_open = FALSE
    /\ result = "running"
    /\ stream = <<>>
    /\ decoded = <<>>
    /\ TgaIdle /\ MainIdle /\ SplashIdle

\* if !model.skeleton.bones.is_empty() { 'wb' of the width of bone_count, 'wv' }
SelectWeightWidth ==
    /\ pc = "weights"
    /\ nodes' = IF model.bone_count # Wide(0, 0, 0)
                THEN CreateProperties(nodes, cur_node,
                        <<P(WidthTagWide(model.bone_count), "wb", <<>>),
                          P("Float", "wv", <<>>)>>)
                ELSE nodes
    /\ pc' = "faces"
    /\ UNCHANGED <<hash_next, stream, decoded>>
    /\ UNCHANGED <<to_cast_vars, tga_vars, main_vars, splash_vars>>

\* 'f' of the width of vertex_count
SelectFaceWidth ==
    /\ pc = "faces"
    /\ nodes' = CreateProperty(nodes, cur_node, WidthTagWide(model.vertex_count), "f", <<>>)
    /\ pc' = "shape"
    /\ UNCHANGED <<hash_next, stream, decoded>>
    /\ UNCHANGED <<to_cast_vars, tga_vars, main_vars, splash_vars>>

\* 'vi' of the width of indices_size, on the blend shape's node
SelectShapeWidth ==
    /\ pc = "shape"
    /\ nodes' = CreateProperty(Create(nodes, 2, "BlendShape", hash_next), Len(nodes) + 1,
                               WidthTagWide(model.indices_size), "vi", <<>>)
    /\ hash_next' = hash_next + 1
    /\ pc' = "return"
    /\ UNCHANGED <<stream, decoded>>
    /\ UNCHANGED <<to_cast_vars, tga_vars, main_vars, splash_vars>>

\* The ways to_cast returns once the tree is built: Ok(()) or the error of
\* File::create(..)? / file.write(writer)?.
WidthReturn ==
    /\ pc = "return"
    /\ \E r \in {"Ok", "ErrIo"} :
          /\ result' = r
          /\ file' = IF r = "Ok" THEN "complete" ELSE file
    /\ pc' = "done"
    /\ UNCHANGED <<model, nodes, hash_next, skeleton_node, cur_node, bone_map,
                   material_map, mesh_map, used_slots, i, j, handle_open>>
    /\ UNCHANGED <<container_vars, tga_vars, main_vars, splash_vars>>

WidthNext ==
    \/ SelectWeightWidth
    \/ SelectFaceWidth
    \/ SelectShapeWidth
    \/ WidthReturn

SpecWidth == WidthInit /\ [][WidthNext]_vars

(***************************************************************************)
(* C13.  A count that selects an index width and exceeds 2^32-1 makes      *)
(* to_cast fail with a capacity error.                                     *)
(***************************************************************************)
ExceedsU32(n) == n[1] > 0

\* C13: a run on a model whose vertex count, bone count or largest blend
\* shape index exceeds 2^32-1 does not end successfully.
C13_CapacityError ==
    (/\ pc = "done"
     /\ \/ ExceedsU32(model.vertex_count)
        \/ ExceedsU32(model.bone_count)
        \/ ExceedsU32(model.indices_size))
        => result # "Ok"

(***************************************************************************)
(* C14.  Failures of opening, writing and flushing come back as I/O        *)
(* errors; Ok means the whole serialized tree is in the file.              *)
(***************************************************************************)
\* C14: a run that got as far as the output file ends either with Ok and the
\* complete file, or with an I/O error and a file that is absent or
\* incomplete.
C14_IoErrorsReturned ==
    (pc = "done" /\ result # "Panic") =>
        \/ result = "Ok" /\ file = "complete"
        \/ result = "ErrIo" /\ file \in {"absent", "empty", "partial"}

C14_Witness ==
    /\ pc = "done"
    /\ result = "ErrIo"
    /\ file = "partial"
    /\ NodesOfKind(nodes, "Material") # {}

(***************************************************************************)
(* C15.  The output file handle is held only between the end of the        *)
(* translation and the return of to_cast.                                  *)
(***************************************************************************)
\* C15: while to_cast holds the handle the whole tree has been built and the
\* write is the next step, and to_cast never returns holding it.
C15_HandleScoped ==
    /\ handle_open => (pc = "write" /\ Kinds(nodes) = ExpectedKinds(model))
    /\ pc = "done" => ~handle_open

C15_Witness ==
    /\ pc = "done"
    /\ result = "ErrIo"
    /\ file = "empty"
    /\ ~handle_open
    /\ NodesOfKind(nodes, "BlendShape") # {}

(***************************************************************************)
(* C16.  What a run of to_cast may change.                                 *)
(***************************************************************************)
\* A property keeps its name and tag and its values, in place.
PropertyGrows(old, new) ==
    \/ old = new
    \/ /\ old.name = new.name
       /\ old.tag = new.tag
       /\ IsPrefix(old.vals, new.vals)

\* A node keeps its kind, parent, identity and its properties, in place.
NodeGrows(old, new) ==
    \/ old = new
    \/ /\ old.kind = new.kind
       /\ old.parent = new.parent
       /\ old.hash = new.hash
       /\ Len(old.props) <= Len(new.props)
       /\ \A k \in 1..Len(old.props) : PropertyGrows(old.props[k], new.props[k])

TreeGrows(old, new) ==
    /\ Len(old) <= Len(new)
    /\ \A n \in 1..Len(old) : NodeGrows(old[n], new[n])

\* C16: no step of to_cast changes the input model; a step changes the tree
\* only by creating nodes and properties and appending values, and only
\* before the output file is created; the file at the target path is changed
\* only by creating it and by the write that follows.
C16_Frame ==
    [][/\ model' = model
       /\ TreeGrows(nodes, nodes')
       /\ pc \in {"create_file", "write", "done"} => nodes' = nodes
       /\ file' # file => pc \in {"create_file", "write"}]_vars

C16_Witness ==
    /\ result = "Ok"
    /\ file = "complete"
    /\ \E n \in NodesOfKind(nodes, "Material") : Len(nodes[n].props) >= 4

(***************************************************************************)
(* C17.  The bone table and the bone references resolved through it.       *)
(***************************************************************************)
\* The Bone node created for bone index b (0-based).
BoneNodeOf(ns, b) == SeqOfKind(ns, "Bone")[b + 1]

BoneTableComplete ==
    /\ DOMAIN bone_map = 0..(Len(model.skeleton.bones) - 1)
    /\ \A b \in DOMAIN bone_map : bone_map[b] = nodes[BoneNodeOf(nodes, b)].hash

\* The bone index a reference property of an IK handle or constraint names.
IKHandleBone(h, name) ==
    CASE name = "sb" -> Some(h.start_bone)
      [] name = "eb" -> Some(h.end_bone)
      [] name = "tb" -> h.target_bone
      [] name = "pv" -> h.pole_vector_bone
      [] name = "pb" -> h.pole_bone

ConstraintBone(c, name) ==
    CASE name = "cb" -> Some(c.constraint_bone)
      [] name = "tb" -> Some(c.target_bone)

\* Every value of property name of node n is the identity of the Bone node
\* of the index bone (an Option).
RefersToBone(ns, n, name, bone) ==
    \A k \in PropsNamed(ns[n], name) :
        \A e \in 1..Len(ns[n].props[k].vals) :
            /\ IsSome(bone)
            /\ Get(bone) < Len(SeqOfKind(ns, "Bone"))
            /\ ns[n].props[k].vals[e] = ns[BoneNodeOf(ns, Get(bone))].hash

BoneRefsResolved ==
    /\ \A k \in 1..Len(SeqOfKind(nodes, "IKHandle")) :
          \A name \in {"sb", "eb", "tb", "pv", "pb"} :
             RefersToBone(nodes, SeqOfKind(nodes, "IKHandle")[k], name,
                          IKHandleBone(model.skeleton.ik_handles[k], name))
    /\ \A k \in 1..Len(SeqOfKind(nodes, "Constraint")) :
          \A name \in {"cb", "tb"} :
             RefersToBone(nodes, SeqOfKind(nodes, "Constraint")[k], name,
                          ConstraintBone(model.skeleton.constraints[k], name))

BonesEmitted == HasSkeleton(model) /\ pc \notin {"start", "skeleton", "bones"}

\* C17: from the end of the bone loop on, so before any IKHandle or
\* Constraint node exists, the bone table maps every bone index to the
\* identity of its Bone node and no step changes it; every bone reference
\* pushed on an IKHandle or Constraint node is the identity of the Bone node
\* of the index it names.
C17_BoneTable ==
    /\ [](/\ BonesEmitted => BoneTableComplete
          /\ (NodesOfKind(nodes, "IKHandle") \cup NodesOfKind(nodes, "Constraint")) # {}
                => BonesEmitted
          /\ BoneRefsResolved)
    /\ [][BonesEmitted => bone_map' = bone_map]_vars

C17_Witness ==
    /\ result = "Ok"
    /\ Len(model.skeleton.bones) = 2
    /\ \E n \in NodesOfKind(nodes, "IKHandle") :
          /\ HasProp(nodes[n], "pb")
          /\ Prop(nodes[n], "pb").vals = <<bone_map[1]>>
          /\ Prop(nodes[n], "sb").vals = <<bone_map[0]>>

(***************************************************************************)
(* C18.  The reference properties of IKHandle and Constraint nodes.        *)
(***************************************************************************)
Once(node, name) == Cardinality(PropsNamed(node, name)) = 1

\* C18: after a successful run every IKHandle node has exactly one 'sb' and
\* one 'eb', every Constraint node exactly one 'cb' and one 'tb', and an
\* IKHandle node has 'tb', 'pv', 'pb' exactly when the handle sets the
\* target, pole vector and pole bone; none of them is repeated.
C18_ReferenceProperties ==
    result = "Ok" =>
        /\ \A k \in 1..Len(SeqOfKind(nodes, "IKHandle")) :
              LET node == nodes[SeqOfKind(nodes, "IKHandle")[k]]
                  h == model.skeleton.ik_handles[k]
              IN /\ Once(node, "sb")
                 /\ Once(node, "eb")
                 /\ \A name \in {"tb", "pv", "pb"} :
                       /\ HasProp(node, name) <=> IsSome(IKHandleBone(h, name))
                       /\ Cardinality(PropsNamed(node, name)) <= 1
        /\ \A k \in 1..Len(SeqOfKind(nodes, "Constraint")) :
              LET node == nodes[SeqOfKind(nodes, "Constraint")[k]]
              IN Once(node, "cb") /\ Once(node, "tb")
        /\ Len(SeqOfKind(nodes, "IKHandle")) =
              (IF HasSkeleton(model) THEN Len(model.skeleton.ik_handles) ELSE 0)
        /\ Len(SeqOfKind(nodes, "Constraint")) =
              (IF HasSkeleton(model) THEN Len(model.skeleton.constraints) ELSE 0)

C18_Witness ==
    /\ result = "Ok"
    /\ Len(SeqOfKind(nodes, "IKHandle")) = 2
    /\ \E n \in NodesOfKind(nodes, "IKHandle") :
          /\ HasProp(nodes[n], "pb")
          /\ ~HasProp(nodes[n], "pv")
          /\ ~HasProp(nodes[n], "tb")

(***************************************************************************)
(* C19.  The graph of hash references.                                     *)
(***************************************************************************)
\* The kind of node a hash reference stored on a node of a kind may name.
ReferenceTarget(kind) ==
    CASE kind \in {"IKHandle", "Constraint"} -> "Bone"
      [] kind = "Material" -> "File"
      [] kind = "Mesh" -> "Material"
      [] kind = "BlendShape" -> "Mesh"
      [] OTHER -> "None"

\* Strictly smaller along every allowed reference.
ReferenceRank(kind) ==
    CASE kind \in {"Bone", "File"} -> 0
      [] kind \in {"IKHandle", "Constraint", "Material"} -> 1
      [] kind = "Mesh" -> 2
      [] kind = "BlendShape" -> 3
      [] OTHER -> 0

\* The hash references stored on node n: the values of its Integer64 properties.
StoredReferences(ns, n) ==
    UNION {Elements(ns[n].props[k].vals) :
             k \in {k \in 1..Len(ns[n].props) : ns[n].props[k].tag = "Integer64"}}

\* C19: every hash reference stored on a node is the identity of a node of
\* the tree, of the kind references from that kind of node go to (IKHandle
\* and Constraint to Bone, Material to File, Mesh to Material, BlendShape to
\* Mesh); references so only lead to kinds of smaller rank and form no cycle.
C19_ReferenceGraph ==
    \A n \in 1..Len(nodes) :
        \A v \in StoredReferences(nodes, n) :
            \E t \in 1..Len(nodes) :
                /\ nodes[t].hash = v
                /\ nodes[t].kind = ReferenceTarget(nodes[n].kind)
                /\ ReferenceRank(nodes[t].kind) < ReferenceRank(nodes[n].kind)
                /\ t # n

C19_Witness ==
    /\ result = "Ok"
    /\ NodesOfKind(nodes, "BlendShape") # {}
    /\ \E n \in NodesOfKind(nodes, "Mesh") : StoredReferences(nodes, n) # {}
    /\ \E n \in NodesOfKind(nodes, "Material") : StoredReferences(nodes, n) # {}

(***************************************************************************)
(* C20.  The face index property 'f'.                                      *)
(***************************************************************************)
\* C20: the 'f' property of every Mesh node holds three elements per face of
\* its mesh, the faces in their order in mesh.faces, each as i3, i2, i1.
C20_FaceWinding ==
    \A k \in 1..Len(SeqOfKind(nodes, "Mesh")) :
        LET node == nodes[SeqOfKind(nodes, "Mesh")[k]]
            faces == model.meshes[k].faces
        IN /\ Once(node, "f")
           /\ Len(Prop(node, "f").vals) = 3 * Len(faces)
           /\ \A q \in 1..Len(faces) :
                 /\ Prop(node, "f").vals[3 * q - 2] = faces[q].i3
                 /\ Prop(node, "f").vals[3 * q - 1] = faces[q].i2
                 /\ Prop(node, "f").vals[3 * q] = faces[q].i1

C20_Witness ==
    /\ result = "Ok"
    /\ \E n \in NodesOfKind(nodes, "Mesh") :
          Prop(nodes[n], "f").vals = <<2, 1, 0, 3, 1, 2>>

(***************************************************************************)
(* C21.  The per-vertex streams of a mesh and its layer counts.            *)
(***************************************************************************)
\* The names 'c0', 'c1', .. and 'u0', 'u1', .. of the first n layers.
LayerNames(prefix, n) == {prefix \o Decimal(k) : k \in 0..(n - 1)}

\* The number of properties of a node with a name in names.
CountNamed(node, names) ==
    Cardinality({k \in 1..Len(node.props) : node.props[k].name \in names})

\* Names of layer properties far beyond the layers of any mesh of Models.
AllLayerNames(prefix) == LayerNames(prefix, 2 * (U8Max + 1))

\* C21: for every mesh of V vertices 'vp' and 'vn' hold the V positions and
\* normals in vertex order, there is exactly one 'c{k}' per color layer and
\* one 'u{k}' per UV layer, each with the V values of its layer in vertex
\* order, and the bytes 'cl' and 'ul' are the numbers of 'c{k}' and 'u{k}'
\* properties of the node.
C21_VertexStreams ==
    \A k \in 1..Len(SeqOfKind(nodes, "Mesh")) :
        LET node == nodes[SeqOfKind(nodes, "Mesh")[k]]
            mesh == model.meshes[k]
            V == mesh.vertices.len
        IN /\ Once(node, "vp")
           /\ Prop(node, "vp").vals = [v \in 1..V |-> VertexPosition(mesh, v - 1)]
           /\ Once(node, "vn")
           /\ Prop(node, "vn").vals = [v \in 1..V |-> VertexNormal(mesh, v - 1)]
           /\ \A cl \in 0..(mesh.vertices.colors - 1) :
                 /\ Once(node, "c" \o Decimal(cl))
                 /\ Prop(node, "c" \o Decimal(cl)).vals
                       = [v \in 1..V |-> VertexColor(mesh, v - 1, cl)]
           /\ \A uv \in 0..(mesh.vertices.uv_layers - 1) :
                 /\ Once(node, "u" \o Decimal(uv))
                 /\ Prop(node, "u" \o Decimal(uv)).vals
                       = [v \in 1..V |-> VertexUV(mesh, v - 1, uv)]
           /\ CountNamed(node, AllLayerNames("c")) = mesh.vertices.colors
           /\ CountNamed(node, AllLayerNames("u")) = mesh.vertices.uv_layers
           /\ Prop(node, "cl").vals = <<CountNamed(node, AllLayerNames("c"))>>
           /\ Prop(node, "ul").vals = <<CountNamed(node, AllLayerNames("u"))>>

(***************************************************************************)
(* C22.  The weight streams 'wb' and 'wv'.                                 *)
(***************************************************************************)
\* C22: a Mesh node has 'wb' and 'wv' exactly when the skeleton has a bone;
\* both then hold V * maximum_influence elements, and element
\* v * maximum_influence + w of 'wb' is the bone and of 'wv' the value of
\* weight w of vertex v.
C22_WeightStreams ==
    \A k \in 1..Len(SeqOfKind(nodes, "Mesh")) :
        LET node == nodes[SeqOfKind(nodes, "Mesh")[k]]
            mesh == model.meshes[k]
            V == mesh.vertices.len
            mi == mesh.vertices.maximum_influence
        IN /\ HasProp(node, "wb") <=> model.skeleton.bones # <<>>
           /\ HasProp(node, "wv") <=> model.skeleton.bones # <<>>
           /\ model.skeleton.bones # <<>> =>
                 /\ Once(node, "wb")
                 /\ Once(node, "wv")
                 /\ Len(Prop(node, "wb").vals) = V * mi
                 /\ Len(Prop(node, "wv").vals) = V * mi
                 /\ \A v \in 0..(V - 1) :
                       \A w \in 0..(mi - 1) :
                          /\ Prop(node, "wb").vals[v * mi + w + 1]
                                = VertexWeight(mesh, v, w).bone
                          /\ Prop(node, "wv").vals[v * mi + w + 1]
                                = VertexWeight(mesh, v, w).value

C22_Witness ==
    /\ result = "Ok"
    /\ \E n \in NodesOfKind(nodes, "Mesh") :
          /\ HasProp(nodes[n], "wv")
          /\ Prop(nodes[n], "wv").vals = <<1, 2, 11, 12, 21, 22, 1, 2>>
          /\ Len(Prop(nodes[n], "wb").vals) = 8
    /\ \E n \in NodesOfKind(nodes, "Mesh") :
          Len(Prop(nodes[n], "wv").vals) = 3

(***************************************************************************)
(* C23.  The index streams 'f', 'wb' and 'vi' keep their values.           *)
(***************************************************************************)
\* An element of a property with this tag is a value the tag's width holds.
HeldBy(tag, x) ==
    /\ x >= 0
    /\ tag = "Byte" => x <= U8Max
    /\ tag = "Short" => x <= U16Max

IndexTags == {"Byte", "Short", "Integer32"}

FacesInRange(mesh) ==
    \A q \in 1..Len(mesh.faces) :
        /\ mesh.faces[q].i1 < mesh.vertices.len
        /\ mesh.faces[q].i2 < mesh.vertices.len
        /\ mesh.faces[q].i3 < mesh.vertices.len

WeightsInRange(m, mesh) ==
    \A v \in 0..(mesh.vertices.len - 1) :
        \A w \in 0..(mesh.vertices.maximum_influence - 1) :
            VertexWeight(mesh, v, w).bone < Len(m.skeleton.bones)

\* C23: 'f', 'wb' and 'vi' each have one of the three index widths, every
\* element is a value that width holds, and it is the index the model holds
\* in memory (a face index below the vertex count, a weight bone below the
\* bone count, a key of the delta map).
C23_IndexStreamsKeepValue ==
    /\ \A k \in 1..Len(SeqOfKind(nodes, "Mesh")) :
          LET node == nodes[SeqOfKind(nodes, "Mesh")[k]]
              mesh == model.meshes[k]
              mi == mesh.vertices.maximum_influence
          IN /\ FacesInRange(mesh) =>
                   /\ Prop(node, "f").tag \in IndexTags
                   /\ \A q \in 1..Len(mesh.faces) :
                         /\ Prop(node, "f").vals[3 * q - 2] = mesh.faces[q].i3
                         /\ Prop(node, "f").vals[3 * q - 1] = mesh.faces[q].i2
                         /\ Prop(node, "f").vals[3 * q] = mesh.faces[q].i1
                   /\ \A e \in 1..Len(Prop(node, "f").vals) :
                         HeldBy(Prop(node, "f").tag, Prop(node, "f").vals[e])
             /\ (HasProp(node, "wb") /\ WeightsInRange(model, mesh)) =>
                   /\ Prop(node, "wb").tag \in IndexTags
                   /\ \A v \in 0..(mesh.vertices.len - 1) :
                         \A w \in 0..(mi - 1) :
                            /\ Prop(node, "wb").vals[v * mi + w + 1]
                                  = VertexWeight(mesh, v, w).bone
                            /\ HeldBy(Prop(node, "wb").tag,
                                      Prop(node, "wb").vals[v * mi + w + 1])
    /\ \A k \in 1..Len(SeqOfKind(nodes, "BlendShape")) :
          LET node == nodes[SeqOfKind(nodes, "BlendShape")[k]]
              shape == ShapesOf(model)[k].shape
          IN /\ Prop(node, "vi").tag \in IndexTags
             /\ Len(Prop(node, "vi").vals) = Len(shape.keys)
             /\ \A e \in 1..Len(shape.keys) :
                   /\ Prop(node, "vi").vals[e] = shape.keys[e]
                   /\ HeldBy(Prop(node, "vi").tag, Prop(node, "vi").vals[e])

\* A mesh of 257 vertices has been emitted with a 16-bit 'f' that holds the
\* index 256 and an 8-bit 'wb' whose bones are all in range.
C23_Witness ==
    /\ result = "Ok"
    /\ \E k \in 1..Len(SeqOfKind(nodes, "Mesh")) :
          LET node == nodes[SeqOfKind(nodes, "Mesh")[k]] IN
          /\ Prop(node, "f").tag = "Short"
          /\ Prop(node, "f").vals = <<U8Max + 1, 1, 0>>
          /\ HasProp(node, "wb")
          /\ WeightsInRange(model, model.meshes[k])
          /\ Prop(node, "wb").tag = "Byte"
          /\ Len(Prop(node, "wb").vals) = U8Max + 2

(***************************************************************************)
(* C24.  The back-reference 'b' and the target scale 'ts' of a blend shape.*)
(***************************************************************************)
\* The index in model.meshes of the mesh that owns each blend shape, in the
\* order to_cast visits the blend shapes.
ShapeOwners(m) ==
    Flatten([k \in 1..Len(m.meshes) |-> [e \in 1..Len(m.meshes[k].blend_shapes) |-> k]])

\* The last Mesh node created before node n.
MeshBefore(ns, n) == Max({d \in NodesOfKind(ns, "Mesh") : d < n})

\* C24: every BlendShape node has one 'b' that holds the identity of the Mesh
\* node of the mesh the shape belongs to, which is the last Mesh node created
\* before it, and one 'ts' that holds the shape's target scale, whether or
\* not the shape has deltas.
C24_BlendShapeBackReference ==
    \A k \in 1..Len(SeqOfKind(nodes, "BlendShape")) :
        LET n == SeqOfKind(nodes, "BlendShape")[k]
            owner == SeqOfKind(nodes, "Mesh")[ShapeOwners(model)[k]]
        IN /\ Once(nodes[n], "b")
           /\ Once(nodes[n], "ts")
           /\ owner = MeshBefore(nodes, n)
           /\ Prop(nodes[n], "b").tag = "Integer64"
           /\ Prop(nodes[n], "b").vals = <<nodes[owner].hash>>
           /\ Prop(nodes[n], "ts").vals = <<ShapesOf(model)[k].shape.target_scale>>

\* The second of two meshes owns a shape without deltas and one with deltas.
C24_Witness ==
    /\ result = "Ok"
    /\ Len(model.meshes) = 2
    /\ Len(model.meshes[2].blend_shapes) = 2
    /\ model.meshes[2].blend_shapes[1].vertex_deltas = <<>>
    /\ Len(SeqOfKind(nodes, "BlendShape")) = 2
    /\ LET owner == nodes[SeqOfKind(nodes, "Mesh")[2]]
           empty == nodes[SeqOfKind(nodes, "BlendShape")[1]]
           full == nodes[SeqOfKind(nodes, "BlendShape")[2]]
       IN /\ Prop(empty, "b").vals = <<owner.hash>>
          /\ Prop(empty, "ts").vals = <<2>>
          /\ Prop(empty, "vi").vals = <<>>
          /\ Prop(full, "b").vals = <<owner.hash>>
          /\ Prop(full, "ts").vals = <<1>>
          /\ Prop(full, "vi").vals # <<>>

(***************************************************************************)
(* C25.  The positions 'vp' of a blend shape.                              *)
(***************************************************************************)
\* C25: 'vi' and 'vp' of a BlendShape node have the same length, and element
\* e of 'vp' is the position of the mesh's vertex 'vi'[e] plus the delta the
\* shape stores for that vertex.
C25_BlendShapePositions ==
    \A k \in 1..Len(SeqOfKind(nodes, "BlendShape")) :
        LET node == nodes[SeqOfKind(nodes, "BlendShape")[k]]
            mesh == ShapesOf(model)[k].mesh
            shape == ShapesOf(model)[k].shape
            vi == Prop(node, "vi").vals
            vp == Prop(node, "vp").vals
        IN /\ Len(vi) = Len(vp)
           /\ \A e \in 1..Len(vi) :
                 /\ vi[e] \in DOMAIN shape.vertex_deltas
                 /\ vp[e] = VecAdd(VertexPosition(mesh, vi[e]), shape.vertex_deltas[vi[e]])
                 /\ vp[e] # shape.vertex_deltas[vi[e]]

\* A shape whose map yields vertex 3 before vertex 0 has been emitted.
C25_Witness ==
    /\ result = "Ok"
    /\ \E n \in NodesOfKind(nodes, "BlendShape") :
          /\ Prop(nodes[n], "vi").vals = <<3, 0>>
          /\ Prop(nodes[n], "vp").vals = <<<<1, 1, 3>>, <<1, 0, 3>>>>

(***************************************************************************)
(* C26.  A model without bones.                                            *)
(***************************************************************************)
RigKinds == {"Skeleton", "Bone", "IKHandle", "Constraint"}

\* C26: when the skeleton has no bone, no Skeleton, Bone, IKHandle or
\* Constraint node is created and no Mesh node gets 'wb' or 'wv', whatever IK
\* handles, constraints and vertex weights the model lists; the run never
\* panics, and it ends with Ok unless creating or writing the file failed.
C26_NoBonesNoRig ==
    model.skeleton.bones = <<>> =>
        /\ \A n \in 1..Len(nodes) : nodes[n].kind \notin RigKinds
        /\ \A n \in NodesOfKind(nodes, "Mesh") :
              ~HasProp(nodes[n], "wb") /\ ~HasProp(nodes[n], "wv")
        /\ result \in {"running", "Ok", "ErrIo"}
        /\ result = "ErrIo" => file # "complete"
        /\ (pc = "done" /\ file = "complete") => result = "Ok"

\* A model without bones that lists IK handles and constraints was written.
C26_Witness ==
    /\ result = "Ok"
    /\ pc = "done"
    /\ file = "complete"
    /\ model.skeleton.bones = <<>>
    /\ Len(model.skeleton.ik_handles) = 2
    /\ Len(model.skeleton.constraints) = 2
    /\ NodesOfKind(nodes, "Model") # {}

(***************************************************************************)
(* porter-texture: the run-length codec of the TGA file type.              *)
(* to_tga encodes the frame row by row with write_rle_encode; from_tga     *)
(* decodes the whole frame with one call of read_rle_decode.  One action   *)
(* is one iteration of the outer loop of either function.                  *)
(***************************************************************************)
MAXIMUM_RLE_LENGTH == 128
RleFlag == 128
MaxPieces == 2

\* What the variables of porter-model hold while another crate runs.
CastIdle ==
    /\ model = Model("Y", BonesOnly(0), <<>>, <<>>)
    /\ pc = "idle"
    /\ nodes = <<>>
    /\ hash_next = 1
    /\ skeleton_node = 0
    /\ cur_node = 0
    /\ bone_map = EmptyMap
    /\ material_map = EmptyMap
    /\ mesh_map = EmptyMap
    /\ used_slots = {}
    /\ i = 0
    /\ j = 0
    /\ file = "absent"
    /\ handle_open = FALSE
    /\ result = "running"
    /\ stream = <<>>
    /\ decoded = <<>>

\* A stretch of len pixels of bpp bytes each: colour 0 repeated ("same") or
\* the colours 1 and 0 in turn ("turn"); the colour is the last byte of the
\* pixel.
Piece(kind, len) == [kind |-> kind, len |-> len]

PieceBytes(bpp, piece) ==
    [b \in 1..(piece.len * bpp) |->
        IF (b - 1) % bpp # bpp - 1 THEN 7
        ELSE IF piece.kind = "same" THEN 0
        ELSE (1 + ((b - 1) \div bpp)) % 2]

PieceLengths == {1, 2, MAXIMUM_RLE_LENGTH, MAXIMUM_RLE_LENGTH + 1}

Pieces == {Piece(kind, len) : kind \in {"same", "turn"}, len \in PieceLengths}

PieceSeqs == UNION {[1..n -> Pieces] : n \in 1..MaxPieces}

Image(bpp, height, buffer) ==
    [bytes_per_pixel |-> bpp, frame_width |-> (Len(buffer) \div bpp) \div height,
     frame_height |-> height, buffer |-> buffer]

\* Frames of one or two rows, for both pixel sizes to_tga encodes.
Images ==
    {Image(c[1], c[2], Flatten([k \in 1..Len(c[3]) |-> PieceBytes(c[1], c[3][k])])) :
        c \in {c \in {1, 4} \X {1, 2} \X PieceSeqs :
                 Sum([k \in 1..Len(c[3]) |-> c[3][k].len]) % c[2] = 0}}

\* A slice &of[from..to] is a view of the bytes of `of`; Length is its len()
\* and Slice(s, a, b) the bytes of &s[a..b].
View(of, from, to) == [of |-> of, from |-> from, to |-> to]
Length(s) == s.to - s.from
Slice(s, a, b) == SubSeq(s.of, s.from + a + 1, s.from + b)

\* &buf[row_start..row_end] of row y
RowOf(img, y) ==
    View(img.buffer, y * img.frame_width * img.bytes_per_pixel,
         y * img.frame_width * img.bytes_per_pixel
           + img.frame_width * img.bytes_per_pixel)

\* `x as u8`, the wrapping u8 subtraction, and 0x80 | x for a u8 x.
AsU8(x) == x % (U8Max + 1)
SubU8(a, b) == (a - b) % (U8Max + 1)
OrRleFlag(x) == IF x >= RleFlag THEN x ELSE x + RleFlag

IsRlePacket(buffer, cur, bpp) ==
    /\ cur + bpp < Length(buffer)
    /\ Slice(buffer, cur, cur + bpp) = Slice(buffer, cur + bpp, cur + 2 * bpp)

Least(a, b) == IF a <= b THEN a ELSE b

\* The condition of the inner loop of the run-length branch.
RleContinues(buffer, bpp, chunk_start, cur, packet_size) ==
    /\ packet_size < MAXIMUM_RLE_LENGTH
    /\ cur + bpp <= Length(buffer)
    /\ Slice(buffer, chunk_start, chunk_start + bpp) = Slice(buffer, cur, cur + bpp)

\* The condition of the inner loop of the raw branch.
RawContinues(buffer, bpp, chunk_start, cur, packet_size) ==
    /\ packet_size < MAXIMUM_RLE_LENGTH
    /\ cur + bpp <= Length(buffer)
    /\ \/ cur + bpp >= Length(buffer)
       \/ Slice(buffer, cur, cur + bpp) # Slice(buffer, cur + bpp, cur + 2 * bpp)

\* The number of times a loop runs that adds 1 to packet_size and
\* BYTES_PER_PIXEL to cursor: continues[k + 1] is the loop's condition after k
\* rounds, and the loop stops at the first k at which it does not hold, which
\* is below MAXIMUM_RLE_LENGTH.
Iterations(continues) ==
    Head(SelectSeq([k \in 1..MAXIMUM_RLE_LENGTH |-> k - 1],
                   LAMBDA k : ~continues[k + 1]))

\* The inner loop of the run-length branch.
RleRun(buffer, bpp, chunk_start, cur, packet_size) ==
    LET k == Iterations([n \in 1..MAXIMUM_RLE_LENGTH |->
                 RleContinues(buffer, bpp, chunk_start, cur + (n - 1) * bpp,
                              packet_size + (n - 1))])
    IN [packet_size |-> packet_size + k, cursor |-> cur + k * bpp]

\* The inner loop of the raw branch.
RawRun(buffer, bpp, chunk_start, cur, packet_size) ==
    LET k == Iterations([n \in 1..MAXIMUM_RLE_LENGTH |->
                 RawContinues(buffer, bpp, chunk_start, cur + (n - 1) * bpp,
                              packet_size + (n - 1))])
    IN [packet_size |-> packet_size + k, cursor |-> cur + k * bpp]

\* write_raw: output.write_struct(counter - 1); output.write_all(buffer)
WriteRaw(buffer, counter) == <<SubU8(counter, 1)>> \o buffer

WriteRleCountAsIs(buffer, counter) == <<OrRleFlag(counter)>> \o buffer

\* write_rle: output.write_struct(0x80 | (counter - 1)); output.write_all(buffer)
WriteRle(buffer, counter) == <<OrRleFlag(SubU8(counter, 1))>> \o buffer

RleLengthOfOpcode(opcode) == opcode - RleFlag

\* ((opcode & !0x80) + 1) as usize, for an opcode with the high bit set
RleLength(opcode) == (opcode - RleFlag) + 1

\* (opcode + 1) as u64 * BYTES_PER_PIXEL as u64
RawLength(opcode, bpp) == (opcode + 1) * bpp

TgaInit ==
    /\ image \in Images
    /\ tga_pc = "encode"
    /\ row = 0
    /\ cursor = 0
    /\ output = <<>>
    /\ input_pos = 0
    /\ frame = <<>>
    /\ tga_result = "running"
    /\ CastIdle /\ MainIdle /\ SplashIdle

\* One iteration of write_rle_encode's loop that writes a run-length packet.
EncodeRle ==
    /\ tga_pc = "encode"
    /\ cursor < Length(RowOf(image, row))
    /\ IsRlePacket(RowOf(image, row), cursor, image.bytes_per_pixel)
    /\ LET buffer == RowOf(image, row)
           bpp == image.bytes_per_pixel
           run == RleRun(buffer, bpp, cursor, cursor + bpp, 1)
       IN /\ cursor' = run.cursor
          /\ output' = output \o WriteRle(Slice(buffer, cursor, cursor + bpp),
                                          AsU8(run.packet_size))
    /\ UNCHANGED <<image, tga_pc, row, input_pos, frame, tga_result>>
    /\ UNCHANGED <<cast_vars, main_vars, splash_vars>>

\* One iteration of write_rle_encode's loop that writes a raw packet.
EncodeRaw ==
    /\ tga_pc = "encode"
    /\ cursor < Length(RowOf(image, row))
    /\ ~IsRlePacket(RowOf(image, row), cursor, image.bytes_per_pixel)
    /\ LET buffer == RowOf(image, row)
           bpp == image.bytes_per_pixel
           run == RawRun(buffer, bpp, cursor, cursor + bpp, 1)
       IN /\ cursor' = run.cursor
          /\ output' = output \o WriteRaw(Slice(buffer, cursor,
                                                cursor + run.packet_size * bpp),
                                          AsU8(run.packet_size))
    /\ UNCHANGED <<image, tga_pc, row, input_pos, frame, tga_result>>
    /\ UNCHANGED <<cast_vars, main_vars, splash_vars>>

\* A write to the output stream fails and `?` returns the error.
EncodeErr ==
    /\ tga_pc = "encode"
    /\ cursor < Length(RowOf(image, row))
    /\ tga_pc' = "done"
    /\ tga_result' = "ErrWrite"
    /\ UNCHANGED <<image, row, cursor, output, input_pos, frame>>
    /\ UNCHANGED <<cast_vars, main_vars, splash_vars>>

\* write_rle_encode returns; to_tga goes to the next row or returns, and
\* from_tga is then run on the bytes written.
NextRow ==
    /\ tga_pc = "encode"
    /\ cursor >= Length(RowOf(image, row))
    /\ IF row + 1 < image.frame_height
       THEN /\ row' = row + 1
            /\ cursor' = 0
            /\ tga_pc' = tga_pc
       ELSE /\ tga_pc' = "decode"
            /\ UNCHANGED <<row, cursor>>
    /\ UNCHANGED <<image, output, input_pos, frame, tga_result>>
    /\ UNCHANGED <<cast_vars, main_vars, splash_vars>>

\* One iteration of read_rle_decode's loop.  A read past the end of the
\* input and a write past the end of the frame buffer return an error.
DecodePacket ==
    /\ tga_pc = "decode"
    /\ Len(frame) < Len(image.buffer)
    /\ LET bpp == image.bytes_per_pixel
           opcode == output[input_pos + 1]
           room == Len(image.buffer) - Len(frame)
           left == Len(output) - (input_pos + 1)
       IN IF input_pos >= Len(output)
          THEN /\ tga_pc' = "done"
               /\ tga_result' = "ErrRead"
               /\ UNCHANGED <<input_pos, frame>>
          ELSE IF opcode >= RleFlag
          THEN IF left < bpp \/ RleLength(opcode) * bpp > room
               THEN /\ tga_pc' = "done"
                    /\ tga_result' = "ErrRead"
                    /\ UNCHANGED <<input_pos, frame>>
               ELSE /\ frame' = frame \o
                          [b \in 1..(RleLength(opcode) * bpp) |->
                              output[input_pos + 1 + ((b - 1) % bpp) + 1]]
                    /\ input_pos' = input_pos + 1 + bpp
                    /\ UNCHANGED <<tga_pc, tga_result>>
          ELSE IF Least(RawLength(opcode, bpp), left) > room
               THEN /\ tga_pc' = "done"
                    /\ tga_result' = "ErrRead"
                    /\ UNCHANGED <<input_pos, frame>>
               ELSE /\ frame' = frame \o
                          SubSeq(output, input_pos + 2,
                                 input_pos + 1 + Least(RawLength(opcode, bpp), left))
                    /\ input_pos' = input_pos + 1 + Least(RawLength(opcode, bpp), left)
                    /\ UNCHANGED <<tga_pc, tga_result>>
    /\ UNCHANGED <<image, row, cursor, output>>
    /\ UNCHANGED <<cast_vars, main_vars, splash_vars>>

\* The frame buffer is full: read_rle_decode returns Ok.
DecodeReturn ==
    /\ tga_pc = "decode"
    /\ Len(frame) >= Len(image.buffer)
    /\ tga_pc' = "done"
    /\ tga_result' = "Ok"
    /\ UNCHANGED <<image, row, cursor, output, input_pos, frame>>
    /\ UNCHANGED <<cast_vars, main_vars, splash_vars>>

TgaStep == EncodeRle \/ EncodeRaw \/ NextRow \/ DecodePacket \/ DecodeReturn

TgaNext ==
    \/ EncodeRle
    \/ EncodeRaw
    \/ EncodeErr
    \/ NextRow
    \/ DecodePacket
    \/ DecodeReturn

SpecTga == TgaInit /\ [][TgaNext]_vars

\* The codec keeps running unless the output stream fails.
SpecTgaFair == TgaInit /\ [][TgaNext]_vars /\ WF_vars(TgaStep)

(***************************************************************************)
(* C27.  Round trip of a frame through the run-length codec.               *)
(***************************************************************************)
\* C27: the decoder never fails on the bytes the encoder wrote row by row,
\* and when it returns the frame buffer holds the bytes of the original
\* buffer and every byte written has been consumed.
C27_RleRoundTrip ==
    /\ tga_result # "ErrRead"
    /\ tga_pc \in {"decode", "done"} =>
          /\ Len(frame) <= Len(image.buffer)
          /\ frame = SubSeq(image.buffer, 1, Len(frame))
    /\ tga_result = "Ok" =>
          /\ frame = image.buffer
          /\ input_pos = Len(output)

\* A frame of two rows of four-byte pixels with a run of 129 pixels has gone
\* through the codec.
C27_Witness ==
    /\ tga_result = "Ok"
    /\ image.bytes_per_pixel = 4
    /\ image.frame_height = 2
    /\ image.frame_width > MAXIMUM_RLE_LENGTH
    /\ output[1] = U8Max
    /\ frame = image.buffer
    /\ \E k \in 1..Len(output) : output[k] = MAXIMUM_RLE_LENGTH - 1

(***************************************************************************)
(* C28.  The packets write_rle_encode writes, and its termination.         *)
(***************************************************************************)
\* The pixels the packets of out from offset pos on stand for.
RECURSIVE PixelsWritten(_, _, _)
PixelsWritten(out, pos, bpp) ==
    IF pos >= Len(out) THEN 0
    ELSE IF out[pos + 1] >= RleFlag
    THEN (out[pos + 1] - RleFlag) + 1 + PixelsWritten(out, pos + 1 + bpp, bpp)
    ELSE out[pos + 1] + 1 + PixelsWritten(out, pos + 1 + (out[pos + 1] + 1) * bpp, bpp)

\* The packets written so far stand for the pixels consumed so far.
PacketsCoverConsumed ==
    tga_pc # "idle" =>
        PixelsWritten(output, 0, image.bytes_per_pixel)
            = row * image.frame_width + cursor \div image.bytes_per_pixel

\* An iteration of the encoder's loop consumes 1..MAXIMUM_RLE_LENGTH pixels
\* and writes one packet for them, whose count byte is the pixel count minus
\* one (with the high bit set, and at least 2 pixels, for a run).
PacketStep ==
    output' # output =>
        LET bpp == image.bytes_per_pixel
            n == (cursor' - cursor) \div bpp
            op == output'[Len(output) + 1]
        IN /\ cursor' >= cursor + bpp
           /\ cursor' <= Length(RowOf(image, row))
           /\ n \in 1..MAXIMUM_RLE_LENGTH
           /\ IF op >= RleFlag
              THEN /\ n >= 2
                   /\ op - RleFlag = n - 1
                   /\ Len(output') = Len(output) + 1 + bpp
              ELSE /\ op = n - 1
                   /\ Len(output') = Len(output) + 1 + n * bpp

\* C28: every iteration of write_rle_encode's loop consumes at least one
\* pixel and writes one packet of 1..128 pixels (a run at least 2) whose
\* count byte is the pixel count minus one, the packets written stand for
\* exactly the pixels consumed, and the encoder comes to an end.
C28_EncoderTerminates ==
    /\ [](PacketsCoverConsumed)
    /\ [][PacketStep]_vars
    /\ <>(tga_pc # "encode")

\* A row of 258 one-byte pixels was encoded as a run of 128 pixels followed
\* by a raw packet of 128 pixels and more.
C28_Witness ==
    /\ tga_pc = "decode"
    /\ image.bytes_per_pixel = 1
    /\ image.frame_height = 1
    /\ image.frame_width = 2 * MAXIMUM_RLE_LENGTH + 2
    /\ output[1] = RleFlag + MAXIMUM_RLE_LENGTH - 1
    /\ output[3] = MAXIMUM_RLE_LENGTH - 1
    /\ PixelsWritten(output, 0, 1) = 2 * MAXIMUM_RLE_LENGTH + 2

(***************************************************************************)
(* porter-ui: the search and controls views of the main window.  A view is *)
(* a function of the window's fields; what is kept of the element it       *)
(* builds is the set of messages its widgets can produce.                  *)
(***************************************************************************)
SEARCH_REALTIME_MAX == 250000
MaxSelected == 2

\* The fields of PorterMain and the answers of its asset manager that the
\* two views read.
MainStates ==
    [loading : BOOLEAN, exporting : BOOLEAN, export_cancel : BOOLEAN,
     search_value : {"", "rifle"},
     item_selection : SUBSET (0..(MaxSelected - 1)),
     is_empty : BOOLEAN,
     loaded_len : {0, SEARCH_REALTIME_MAX, SEARCH_REALTIME_MAX + 1},
     supports_load_game : BOOLEAN,
     supports_load_files : BOOLEAN]

BusyWhileExporting(self) == self.exporting

\* self.loading || self.exporting
Busy(self) == self.loading \/ self.exporting

\* on_press_maybe(if disabled { None } else { Some(message) })
OnPressMaybe(disabled, message) == IF disabled THEN {} ELSE {message}

\* PorterMain::search
SearchView(self) ==
    (IF Busy(self) THEN {} ELSE {"SearchInput", "SearchSubmit"})
    \cup (IF self.loaded_len > SEARCH_REALTIME_MAX
          THEN OnPressMaybe(self.search_value = "" \/ Busy(self), "SearchSubmit")
          ELSE {})
    \cup OnPressMaybe(self.search_value = "" \/ Busy(self), "SearchClear")

\* PorterMain::controls
ControlsView(self) ==
    (IF self.supports_load_game THEN OnPressMaybe(Busy(self), "LoadGame") ELSE {})
    \cup (IF self.supports_load_files THEN OnPressMaybe(Busy(self), "LoadFile") ELSE {})
    \cup OnPressMaybe(self.item_selection = {} \/ Busy(self), "ExportSelected")
    \cup OnPressMaybe(self.is_empty \/ Busy(self), "ExportAll")
    \cup (IF self.exporting /\ ~self.export_cancel THEN {"CancelExport"} ELSE {})

MainInit ==
    /\ main \in MainStates
    /\ search_view = None
    /\ controls_view = None
    /\ CastIdle /\ TgaIdle /\ SplashIdle

Search ==
    /\ search_view = None
    /\ search_view' = Some(SearchView(main))
    /\ UNCHANGED <<main, controls_view>>
    /\ UNCHANGED <<cast_vars, tga_vars, splash_vars>>

Controls ==
    /\ controls_view = None
    /\ controls_view' = Some(ControlsView(main))
    /\ UNCHANGED <<main, search_view>>
    /\ UNCHANGED <<cast_vars, tga_vars, splash_vars>>

MainNext ==
    \/ Search
    \/ Controls

SpecMain == MainInit /\ [][MainNext]_vars

(***************************************************************************)
(* C29.  What the views offer while the window loads or exports.           *)
(***************************************************************************)
\* The messages the views built so far can produce.
Offered ==
    (IF IsSome(search_view) THEN Get(search_view) ELSE {})
    \cup (IF IsSome(controls_view) THEN Get(controls_view) ELSE {})

IdleOnly == {"LoadGame", "LoadFile", "ExportSelected", "ExportAll", "SearchInput",
             "SearchSubmit", "SearchClear"}

\* C29: while loading or exporting is true the views offer none of LoadGame,
\* LoadFile, ExportSelected, ExportAll, SearchInput, SearchSubmit and
\* SearchClear; ExportSelected is offered only with a non-empty selection and
\* ExportAll only with a non-empty asset list; the controls view offers
\* CancelExport exactly when exporting is true and export_cancel is false,
\* and the search view never does.
C29_ViewsWhileBusy ==
    /\ (main.loading \/ main.exporting) => Offered \cap IdleOnly = {}
    /\ "ExportSelected" \in Offered => main.item_selection # {}
    /\ "ExportAll" \in Offered => ~main.is_empty
    /\ IsSome(search_view) => "CancelExport" \notin Get(search_view)
    /\ IsSome(controls_view) =>
          ("CancelExport" \in Get(controls_view)
              <=> (main.exporting /\ ~main.export_cancel))

\* Both views were built for a window that loads and exports at once, with
\* a selection, a search text, assets and both ways of loading.
C29_Witness ==
    /\ main.loading /\ main.exporting /\ ~main.export_cancel
    /\ main.item_selection # {}
    /\ ~main.is_empty
    /\ main.search_value # ""
    /\ main.loaded_len > SEARCH_REALTIME_MAX
    /\ main.supports_load_game /\ main.supports_load_files
    /\ search_view = Some({})
    /\ controls_view = Some({"CancelExport"})

(***************************************************************************)
(* porter-ui: the splash channel of PorterMain::subscription.  One action  *)
(* is one iteration of its loop; the counter is kept in hundredths.        *)
(***************************************************************************)
MaxCloses == 2

Hundredths(units, frac) == 100 * units + frac

SplashStepNone == Hundredths(0, 0)

\* splash += 0.96
SplashStep == Hundredths(0, 96)

\* if cfg!(debug_assertions) { 30.0 } else { 200.0 }
Timeouts == {Hundredths(30, 0), Hundredths(200, 0)}

SplashInit ==
    /\ splash = 0
    /\ timeout \in Timeouts
    /\ sent = None
    /\ closes = 0
    /\ CastIdle /\ TgaIdle /\ MainIdle

\* splash < timeout: the counter grows and UpdateSplash carries its value.
TickUpdate ==
    /\ timeout \in Timeouts
    /\ ~(splash >= timeout)
    /\ splash' = splash + SplashStep
    /\ sent' = Some([message |-> "UpdateSplash", value |-> splash'])
    /\ UNCHANGED <<timeout, closes>>
    /\ UNCHANGED <<cast_vars, tga_vars, main_vars>>

\* splash >= timeout: CloseSplash is sent and the counter stays.
TickClose ==
    /\ timeout \in Timeouts
    /\ splash >= timeout
    /\ closes < MaxCloses
    /\ sent' = Some([message |-> "CloseSplash", value |-> 0])
    /\ closes' = closes + 1
    /\ UNCHANGED <<splash, timeout>>
    /\ UNCHANGED <<cast_vars, tga_vars, main_vars>>

SplashNext ==
    \/ TickUpdate
    \/ TickClose

SpecSplash == SplashInit /\ [][SplashNext]_vars

\* The loop keeps running while the splash window is open.
SpecSplashFair == SplashInit /\ [][SplashNext]_vars /\ WF_vars(SplashNext)

(***************************************************************************)
(* C30.  The messages of the splash channel.                               *)
(***************************************************************************)
IsUpdate(m) == IsSome(m) /\ Get(m).message = "UpdateSplash"
IsClose(m) == IsSome(m) /\ Get(m).message = "CloseSplash"

\* A tick below the timeout sends UpdateSplash with a value above the one
\* sent before; a tick at or above the timeout sends CloseSplash.
SplashTick ==
    IF splash < timeout
    THEN /\ IsUpdate(sent')
         /\ Get(sent').value = splash'
         /\ IsUpdate(sent) => Get(sent').value > Get(sent).value
         /\ splash' > splash
    ELSE /\ IsClose(sent')
         /\ closes' = closes + 1

\* C30: every tick of the splash channel below the timeout sends
\* UpdateSplash with a value greater than the one before, every tick from the
\* timeout on sends CloseSplash, no UpdateSplash follows a CloseSplash, and
\* CloseSplash is sent in the end.
C30_SplashCloses ==
    /\ [][SplashTick]_vars
    /\ [][IsClose(sent) => IsClose(sent')]_vars
    /\ <>IsClose(sent)

\* The release build's channel has sent 209 UpdateSplash messages, the last
\* one above the timeout, and then CloseSplash more than once.
C30_Witness ==
    /\ timeout = Hundredths(200, 0)
    /\ splash = 209 * SplashStep
    /\ splash - SplashStep < timeout
    /\ IsClose(sent)
    /\ closes = 2

====
